---- MODULE Spec2Model ----
(***************************************************************************)
(* paperless-ngx ASN label generator (app.py): the label grid placement    *)
(* and pagination of generate_pdf, and the settings layer of App (load     *)
(* with legacy migration, save, debounced autosave, status line).          *)
(*                                                                         *)
(* Text is a sequence of one-character strings, so that formatting and     *)
(* parsing are computed and not assumed.  A float is an IEEE-754 double    *)
(* (sign, 53-bit significand, binary exponent), read from text and written *)
(* as text the way float() and str() do.  Lengths on the page are floats   *)
(* of points, computed with the float operations of the code in its order. *)
(***************************************************************************)
EXTENDS Integers, Sequences, FiniteSets, TLC

VARIABLES
    tkvar,                    \* the twelve Tk variables var_*, by settings key
    _loading_settings,        \* App._loading_settings
    _save_job,                \* App._save_job: NoJob or the id of the last after() job
    _pending_config_status,   \* App._pending_config_status: None or a message
    lbl_config_status,        \* text of App.lbl_config_status, NoLabel before _build_ui
    after_queue,              \* Tk's pending after() jobs: [id, remaining ticks]
    config_file,              \* config.json on disk
    pc,                       \* position of the App: __init__ phases, then the main loop
    gen,                      \* the last call of generate_pdf: arguments and outcome
    pdf_file,                 \* the document on disk: NoFile or the size of each page
    errorbox,                 \* text of the last messagebox.showerror, None if none
    save_dialog,              \* the open asksaveasfilename and the locals waiting for it
    hist                      \* observation record (counters and snapshots for the claims)

vars == <<tkvar, _loading_settings, _save_job, _pending_config_status,
          lbl_config_status, after_queue, config_file, pc, gen, pdf_file,
          errorbox, save_dialog, hist>>

None == "None"
NoJob == 0
NoLabel == "NoLabel"
NoFile == [exists |-> FALSE, pages |-> <<>>, by |-> <<>>]
NoCall == [via |-> "none"]
NoDialog == [open |-> FALSE]
NoCanvas == [filename |-> None, pages |-> <<>>, cur |-> <<>>, saved |-> FALSE]

-----------------------------------------------------------------------------
(* Text: str(int), int(), format(), strip(), lower()                       *)

Digits == <<"0", "1", "2", "3", "4", "5", "6", "7", "8", "9">>

IsDigit(ch) == \E d \in 1..10 : Digits[d] = ch

DigitVal(ch) == (CHOOSE d \in 1..10 : Digits[d] = ch) - 1

RECURSIVE NatToStr(_)
NatToStr(n) ==
    IF n < 10 THEN <<Digits[n + 1]>>
    ELSE NatToStr(n \div 10) \o <<Digits[(n % 10) + 1]>>

\* str(n) for an int
IntToStr(n) == IF n < 0 THEN <<"-">> \o NatToStr(-n) ELSE NatToStr(n)

\* s with zeros in front of it up to the width
ZeroFill(s, width) == [i \in 1..(width - Len(s)) |-> "0"] \o s

ZeroFill_Truncating(s, width) ==
    IF Len(s) > width /\ width > 0 THEN SubSeq(s, Len(s) - width + 1, Len(s))
    ELSE ZeroFill(s, width)

\* format(number, "0{width}d"): sign first, zeros up to the width, never cut
FormatZeroPadded(number, width) ==
    IF number < 0 THEN <<"-">> \o ZeroFill(NatToStr(-number), width - 1)
    ELSE ZeroFill(NatToStr(number), width)

FormatZeroPadded_Truncating(number, width) ==
    IF number < 0 THEN <<"-">> \o ZeroFill_Truncating(NatToStr(-number), width - 1)
    ELSE ZeroFill_Truncating(NatToStr(number), width)

make_asn_text_Truncating(prefix, number, leading_zeros) ==
    prefix \o FormatZeroPadded_Truncating(number, leading_zeros)

make_asn_text(prefix, number, leading_zeros) ==
    prefix \o FormatZeroPadded(number, leading_zeros)

RECURSIVE DigitsToNat(_)
DigitsToNat(s) ==
    IF s = <<>> THEN 0
    ELSE 10 * DigitsToNat(SubSeq(s, 1, Len(s) - 1)) + DigitVal(s[Len(s)])

AllDigits(s) == s # <<>> /\ \A k \in 1..Len(s) : IsDigit(s[k])

\* The whitespace str.strip() removes: space, tab, line feed, carriage return,
\* form feed, vertical tab and the separators 0x1c-0x1f (the spaces beyond
\* ASCII cannot be written in a string here)
Whitespace == {" ", "\t", "\n", "\r", "\f", "", "", "", "", ""}

NonBlank(s) == {k \in 1..Len(s) : s[k] \notin Whitespace}

SetMin(S) == CHOOSE k \in S : \A j \in S : k <= j

SetMax(S) == CHOOSE k \in S : \A j \in S : k >= j

LStrip(s) == IF NonBlank(s) = {} THEN <<>> ELSE SubSeq(s, SetMin(NonBlank(s)), Len(s))

RStrip(s) == IF NonBlank(s) = {} THEN <<>> ELSE SubSeq(s, 1, SetMax(NonBlank(s)))

\* str.strip()
Strip(s) == RStrip(LStrip(s))

Unsigned(s) == IF s # <<>> /\ s[1] \in {"+", "-"} THEN Tail(s) ELSE s

Sign(s) == IF s # <<>> /\ s[1] = "-" THEN -1 ELSE 1

IsNegative(s) == s # <<>> /\ s[1] = "-"

\* Digits with single underscores between them, as int() and float() accept
IsDigitPart(s) ==
    /\ s # <<>>
    /\ IsDigit(s[1])
    /\ IsDigit(s[Len(s)])
    /\ \A k \in 1..Len(s) : IsDigit(s[k]) \/ (s[k] = "_" /\ s[k - 1] # "_")

NotUnderscore(ch) == ch # "_"

DigitsOf(s) == SelectSeq(s, NotUnderscore)

NoNumber == [ok |-> FALSE, val |-> 0]

\* int(t) for stripped text: optional sign, then decimal digits that may be
\* grouped by single underscores; anything else raises
IntOfStripped(t) ==
    IF IsDigitPart(Unsigned(t))
    THEN [ok |-> TRUE, val |-> Sign(t) * DigitsToNat(DigitsOf(Unsigned(t)))]
    ELSE NoNumber

\* int(s.strip())
ParseInt(s) == IntOfStripped(Strip(s))

\* s.replace(",", ".")
ReplaceComma(s) == [k \in 1..Len(s) |-> IF s[k] = "," THEN "." ELSE s[k]]

UpperCase == <<"A", "B", "C", "D", "E", "F", "G", "H", "I", "J", "K", "L", "M",
               "N", "O", "P", "Q", "R", "S", "T", "U", "V", "W", "X", "Y", "Z">>
LowerCase == <<"a", "b", "c", "d", "e", "f", "g", "h", "i", "j", "k", "l", "m",
               "n", "o", "p", "q", "r", "s", "t", "u", "v", "w", "x", "y", "z">>

\* str.lower()
Lower(s) ==
    [k \in 1..Len(s) |->
        IF \E u \in 1..26 : UpperCase[u] = s[k]
        THEN LowerCase[CHOOSE u \in 1..26 : UpperCase[u] = s[k]]
        ELSE s[k]]

Min(a, b) == IF a < b THEN a ELSE b

Max(a, b) == IF a > b THEN a ELSE b

Abs(v) == IF v < 0 THEN -v ELSE v

-----------------------------------------------------------------------------
(* Natural numbers of any size: little-endian sequences of 15-bit limbs,   *)
(* without leading zero limbs; <<>> is zero                                *)

Limb == 2^15

\* Without the zero limbs at the top
BigTrim(a) ==
    IF \A k \in 1..Len(a) : a[k] = 0 THEN <<>>
    ELSE SubSeq(a, 1, SetMax({k \in 1..Len(a) : a[k] # 0}))

BigOfSmall(n) == IF n = 0 THEN <<>> ELSE <<n>>

\* With zero limbs at the top, up to n limbs
Pad(a, n) == [i \in 1..n |-> IF i <= Len(a) THEN a[i] ELSE 0]

LowHalf(a) == SubSeq(a, 1, Len(a) \div 2)

HighHalf(a) == SubSeq(a, (Len(a) \div 2) + 1, Len(a))

\* The low limbs d, then the limbs and the carry of the part above them
CarryCat(d, hi) == IF d = <<>> THEN hi ELSE [d |-> d \o hi.d, c |-> hi.c]

Carried(r) == IF r.c = 0 THEN r.d ELSE r.d \o <<r.c>>

\* a + b + c limb by limb for a and b of one length, by halves
RECURSIVE AddPart(_, _, _)
AddJoin(lo, a, b) == CarryCat(lo.d, AddPart(a, b, lo.c))

AddPart(a, b, c) ==
    IF a = <<>> THEN [d |-> <<>>, c |-> c]
    ELSE IF Len(a) = 1
    THEN [d |-> <<(a[1] + b[1] + c) % Limb>>, c |-> (a[1] + b[1] + c) \div Limb]
    ELSE AddJoin(AddPart(LowHalf(a), LowHalf(b), c), HighHalf(a), HighHalf(b))

BigAdd(a, b) == Carried(AddPart(Pad(a, Max(Len(a), Len(b))), Pad(b, Max(Len(a), Len(b))), 0))

\* a - b - c limb by limb for a and b of one length, by halves
RECURSIVE SubPart(_, _, _)
SubJoin(lo, a, b) == CarryCat(lo.d, SubPart(a, b, lo.c))

SubPart(a, b, c) ==
    IF a = <<>> THEN [d |-> <<>>, c |-> c]
    ELSE IF Len(a) = 1
    THEN [d |-> <<(a[1] - b[1] - c + Limb) % Limb>>, c |-> IF a[1] - b[1] - c < 0 THEN 1 ELSE 0]
    ELSE SubJoin(SubPart(LowHalf(a), LowHalf(b), c), HighHalf(a), HighHalf(b))

\* a - b for a >= b
BigSub(a, b) == BigTrim(SubPart(a, Pad(b, Len(a)), 0).d)

CmpAt(a, b, k) == IF a[k] < b[k] THEN -1 ELSE 1

\* -1, 0 or 1 as a < b, a = b or a > b
BigCmp(a, b) ==
    IF Len(a) # Len(b) THEN (IF Len(a) < Len(b) THEN -1 ELSE 1)
    ELSE IF a = b THEN 0
    ELSE CmpAt(a, b, SetMax({k \in 1..Len(a) : a[k] # b[k]}))

\* a * k + c limb by limb for 0 <= k <= Limb, 0 <= c < Limb, by halves
RECURSIVE MulPart(_, _, _)
MulJoin(lo, a, k) == CarryCat(lo.d, MulPart(a, k, lo.c))

MulPart(a, k, c) ==
    IF a = <<>> THEN [d |-> <<>>, c |-> c]
    ELSE IF Len(a) = 1
    THEN [d |-> <<(a[1] * k + c) % Limb>>, c |-> (a[1] * k + c) \div Limb]
    ELSE MulJoin(MulPart(LowHalf(a), k, c), HighHalf(a), k)

BigMulSmall(a, k) == IF k = 0 THEN <<>> ELSE Carried(MulPart(a, k, 0))

\* The high limbs q of a quotient, then the limbs and the remainder below them
RemCat(q, lo) == IF q = <<>> THEN lo ELSE [q |-> lo.q \o q, r |-> lo.r]

\* (r * Limb^Len(a) + a) divided by k limb by limb, from the top limb down,
\* for 0 <= r < k <= Limb, by halves
RECURSIVE DivPart(_, _, _)
DivJoin(hi, a, k) == RemCat(hi.q, DivPart(a, k, hi.r))

DivPart(a, k, r) ==
    IF a = <<>> THEN [q |-> <<>>, r |-> r]
    ELSE IF Len(a) = 1
    THEN [q |-> <<(r * Limb + a[1]) \div k>>, r |-> (r * Limb + a[1]) % k]
    ELSE DivJoin(DivPart(HighHalf(a), k, r), LowHalf(a), k)

BigDivSmall(a, k) == BigTrim(DivPart(a, k, 0).q)

BigModSmall(a, k) == DivPart(a, k, 0).r

\* a * 2^s
BigShl(a, s) ==
    IF a = <<>> THEN <<>>
    ELSE [i \in 1..(s \div 15) |-> 0] \o BigMulSmall(a, 2^(s % 15))

\* a \div 2^s
BigShr(a, s) ==
    IF s \div 15 >= Len(a) THEN <<>>
    ELSE BigDivSmall(SubSeq(a, (s \div 15) + 1, Len(a)), 2^(s % 15))

RECURSIVE BitLenSmall(_)
BitLenSmall(n) == IF n = 0 THEN 0 ELSE 1 + BitLenSmall(n \div 2)

BitLen(a) == IF a = <<>> THEN 0 ELSE 15 * (Len(a) - 1) + BitLenSmall(a[Len(a)])

IsOdd(a) == a # <<>> /\ a[1] % 2 = 1

\* Round half to even: up when the dropped part is above the half, or is the
\* half and either more was dropped before (sticky) or the kept part is odd
RoundsUp(q, cmp, sticky) == cmp = 1 \/ (cmp = 0 /\ (sticky \/ IsOdd(q)))

RoundedShr(q, a, s, sticky) ==
    IF RoundsUp(q, BigCmp(BigSub(a, BigShl(q, s)), BigShl(<<1>>, s - 1)), sticky)
    THEN BigAdd(q, <<1>>)
    ELSE q

\* a / 2^s rounded to the nearest natural number, for s >= 1
BigRoundShr(a, s, sticky) == RoundedShr(BigShr(a, s), a, s, sticky)

\* A multiple of four that is about the half of k, for k > 4
HalfPow(k) == 4 * ((k + 4) \div 8)

\* a * 10^k, by halves of k
RECURSIVE BigMulPow10(_, _)
BigMulPow10(a, k) ==
    IF k = 0 \/ a = <<>> THEN a
    ELSE IF k <= 4 THEN BigMulSmall(a, 10^k)
    ELSE BigMulPow10(BigMulPow10(a, HalfPow(k)), k - HalfPow(k))

\* a \div 10^k, and whether anything was left over, by halves of k
RECURSIVE BigDivPow10(_, _, _)
DivPow10Sticky(qs, k) == BigDivPow10(qs.q, k, qs.sticky)

BigDivPow10(a, k, sticky) ==
    IF k = 0 \/ (a = <<>> /\ sticky) THEN [q |-> a, sticky |-> sticky]
    ELSE IF k <= 4 THEN [q |-> BigDivSmall(a, 10^k), sticky |-> sticky \/ BigModSmall(a, 10^k) # 0]
    ELSE DivPow10Sticky(BigDivPow10(a, HalfPow(k), sticky), k - HalfPow(k))

\* The number a text of digits spells, four digits at a time
RECURSIVE BigOfDigits(_)
BigOfDigits(s) ==
    IF Len(s) <= 4 THEN BigOfSmall(DigitsToNat(s))
    ELSE BigAdd(BigMulSmall(BigOfDigits(SubSeq(s, 1, Len(s) - 4)), 10000),
                BigOfSmall(DigitsToNat(SubSeq(s, Len(s) - 3, Len(s)))))

\* The digits of a > 0, four at a time
RECURSIVE DigitsOfBig(_)
DigitsOfBig(a) ==
    IF Len(a) = 1 /\ a[1] < 10000 THEN NatToStr(a[1])
    ELSE DigitsOfBig(BigDivSmall(a, 10000)) \o ZeroFill(NatToStr(BigModSmall(a, 10000)), 4)

\* The natural number n
RECURSIVE BigOfNat(_)
BigOfNat(n) == IF n < Limb THEN BigOfSmall(n) ELSE <<n % Limb>> \o BigOfNat(n \div Limb)

\* a * b, limb by limb of b
RECURSIVE BigMul(_, _)
BigMul(a, b) ==
    IF a = <<>> \/ b = <<>> THEN <<>>
    ELSE IF Len(b) = 1 THEN BigMulSmall(a, b[1])
    ELSE BigAdd(BigMulSmall(a, b[1]), <<0>> \o BigMul(a, Tail(b)))

-----------------------------------------------------------------------------
(* float: IEEE-754 binary64.  A finite value is (-1)^neg * m * 2^e with m  *)
(* of 53 bits, or of fewer bits and e = -1074 (subnormal), or m zero       *)

NaN == [kind |-> "nan", neg |-> FALSE, m |-> <<>>, e |-> 0]

Inf(neg) == [kind |-> "inf", neg |-> neg, m |-> <<>>, e |-> 0]

FloatZero(neg) == [kind |-> "fin", neg |-> neg, m |-> <<>>, e |-> 0]

IsFinite(v) == v.kind = "fin"

\* Overflow past the largest double gives an infinity
Finite(neg, m, e) ==
    IF e + BitLen(m) > 1024 THEN Inf(neg)
    ELSE [kind |-> "fin", neg |-> neg, m |-> m, e |-> e]

Rounded(neg, q, e) ==
    IF q = <<>> THEN FloatZero(neg)
    ELSE IF BitLen(q) = 54 THEN Finite(neg, BigShr(q, 1), e + 1)
    ELSE Finite(neg, q, e)

RoundAt(neg, a, e, sticky, s) ==
    IF s > 0 THEN Rounded(neg, BigRoundShr(a, s, sticky), e + s)
    ELSE Finite(neg, BigShl(a, -s), e + s)

\* The double nearest to a * 2^e (plus a little, when sticky), ties to even
RoundToDouble(neg, a, e, sticky) ==
    IF a = <<>> THEN FloatZero(neg)
    ELSE RoundAt(neg, a, e, sticky, Max(BitLen(a) - 53, -1074 - e))

StripZeros(s) ==
    IF \A k \in 1..Len(s) : s[k] = "0" THEN <<>>
    ELSE SubSeq(s, SetMin({k \in 1..Len(s) : s[k] # "0"}), Len(s))

ScaleBits(k) == 15 * ((4 * k) \div 15 + 5)

FromQuotient(neg, qs, t) == RoundToDouble(neg, qs.q, -t, qs.sticky)

FromDigits(neg, s, x) ==
    IF s = <<>> THEN FloatZero(neg)
    ELSE IF Len(s) + x > 310 THEN Inf(neg)
    ELSE IF Len(s) + x < -330 THEN FloatZero(neg)
    ELSE IF x >= 0 THEN RoundToDouble(neg, BigMulPow10(BigOfDigits(s), x), 0, FALSE)
    ELSE FromQuotient(neg, BigDivPow10(BigShl(BigOfDigits(s), ScaleBits(-x)), -x, FALSE), ScaleBits(-x))

\* The double nearest to the decimal number s * 10^x, s a text of digits
FromDecimal(neg, s, x) == FromDigits(neg, StripZeros(s), x)

FloatNeg(v) == IF v.kind = "nan" THEN v ELSE [v EXCEPT !.neg = ~@]

FloatAbs(v) == [v EXCEPT !.neg = FALSE]

AddSigned(an, a, bn, b, e, cmp) ==
    IF cmp = 0 THEN FloatZero(FALSE)
    ELSE IF cmp = 1 THEN RoundToDouble(an, BigSub(a, b), e, FALSE)
    ELSE RoundToDouble(bn, BigSub(b, a), e, FALSE)

AddAligned(an, a, bn, b, e) ==
    IF an = bn THEN RoundToDouble(an, BigAdd(a, b), e, FALSE)
    ELSE AddSigned(an, a, bn, b, e, BigCmp(a, b))

\* a + b of two floats
FloatAdd(a, b) ==
    IF a.kind = "nan" \/ b.kind = "nan" THEN NaN
    ELSE IF a.kind = "inf" THEN (IF b.kind = "inf" /\ a.neg # b.neg THEN NaN ELSE a)
    ELSE IF b.kind = "inf" THEN b
    ELSE IF a.m = <<>> THEN (IF b.m = <<>> THEN FloatZero(a.neg /\ b.neg) ELSE b)
    ELSE IF b.m = <<>> THEN a
    ELSE AddAligned(a.neg, BigShl(a.m, a.e - Min(a.e, b.e)), b.neg, BigShl(b.m, b.e - Min(a.e, b.e)), Min(a.e, b.e))

\* a - b of two floats
FloatSub(a, b) == FloatAdd(a, FloatNeg(b))

IsZero(v) == v.kind = "fin" /\ v.m = <<>>

\* a * b of two floats
FloatMul(a, b) ==
    IF a.kind = "nan" \/ b.kind = "nan" THEN NaN
    ELSE IF a.kind = "inf" \/ b.kind = "inf"
    THEN (IF IsZero(a) \/ IsZero(b) THEN NaN ELSE Inf(a.neg # b.neg))
    ELSE RoundToDouble(a.neg # b.neg, BigMul(a.m, b.m), a.e + b.e, FALSE)

\* float(n) of an integer n
FloatOfInt(n) == RoundToDouble(n < 0, BigOfNat(Abs(n)), 0, FALSE)

\* abs(a) < abs(b); false when either is a nan
FloatAbsLess(a, b) ==
    IF a.kind = "nan" \/ b.kind = "nan" THEN FALSE
    ELSE IF a.kind = "inf" THEN FALSE
    ELSE IF b.kind = "inf" THEN TRUE
    ELSE BigCmp(BigShl(a.m, a.e - Min(a.e, b.e)), BigShl(b.m, b.e - Min(a.e, b.e))) = -1

NoFloat == [ok |-> FALSE, val |-> NaN]

ExponentVal(s) == IF Len(StripZeros(s)) > 5 THEN 99999 ELSE DigitsToNat(StripZeros(s))

\* The e-part of a float's text: optional sign and digits
ExponentOf(t) ==
    IF IsDigitPart(Unsigned(t))
    THEN [ok |-> TRUE, val |-> Sign(t) * ExponentVal(DigitsOf(Unsigned(t)))]
    ELSE NoNumber

\* The float with integer digits ip, fraction digits fp and exponent ex
FloatOfParts(neg, ip, fp, ex) ==
    IF /\ (ip = <<>> \/ IsDigitPart(ip))
       /\ (fp = <<>> \/ IsDigitPart(fp))
       /\ ~(ip = <<>> /\ fp = <<>>)
       /\ ex.ok
    THEN [ok |-> TRUE, val |-> FromDecimal(neg, DigitsOf(ip) \o DigitsOf(fp), ex.val - Len(DigitsOf(fp)))]
    ELSE NoFloat

FloatOfPointAt(neg, body, k, ex) ==
    FloatOfParts(neg, SubSeq(body, 1, k - 1), SubSeq(body, k + 1, Len(body)), ex)

FloatOfMantissa(neg, body, dots, ex) ==
    IF dots = {} THEN FloatOfParts(neg, body, <<>>, ex)
    ELSE IF Cardinality(dots) > 1 THEN NoFloat
    ELSE FloatOfPointAt(neg, body, CHOOSE d \in dots : TRUE, ex)

FloatOfExpAt(neg, body, es) ==
    IF es = {} THEN FloatOfMantissa(neg, body, {k \in 1..Len(body) : body[k] = "."}, [ok |-> TRUE, val |-> 0])
    ELSE FloatOfMantissa(neg, SubSeq(body, 1, SetMin(es) - 1), {k \in 1..(SetMin(es) - 1) : body[k] = "."}, ExponentOf(SubSeq(body, SetMin(es) + 1, Len(body))))

FloatOfUnsigned(neg, body) ==
    IF Lower(body) \in {<<"i", "n", "f">>, <<"i", "n", "f", "i", "n", "i", "t", "y">>}
    THEN [ok |-> TRUE, val |-> Inf(neg)]
    ELSE IF Lower(body) = <<"n", "a", "n">> THEN [ok |-> TRUE, val |-> NaN]
    ELSE FloatOfExpAt(neg, body, {k \in 1..Len(body) : body[k] \in {"e", "E"}})

\* float(t) for stripped text: optional sign, then inf, infinity or nan in any
\* case, or digits with at most one point and an optional exponent; digits may
\* be grouped by single underscores
FloatOfStripped(t) == FloatOfUnsigned(IsNegative(t), Unsigned(t))

\* float(s.strip().replace(",", "."))
ParseFloat(s) == FloatOfStripped(ReplaceComma(Strip(s)))

\* a \div 2^s, and whether anything was left over
ShrSticky(a, s) == [q |-> BigShr(a, s), sticky |-> BigShl(BigShr(a, s), s) # a]

\* The whole part of m * 2^e * 10^q, and whether anything was left over
ScaledFloor(m, e, q) ==
    DivPow10Sticky(ShrSticky(BigShl(BigMulPow10(m, Max(q, 0)), Max(e, 0)), Max(-e, 0)), Max(-q, 0))

\* One digit that stands for what is left below a whole part: nothing, less
\* than a half, a half, or more than a half
TailDigit(half, sticky) ==
    IF half THEN (IF sticky THEN "7" ELSE "5") ELSE (IF sticky THEN "2" ELSE "0")

DigitsWithTail(qs) == DigitsOfBig(BigShr(qs.q, 1)) \o <<TailDigit(IsOdd(qs.q), qs.sticky)>>

\* The digits of abs(v) * 10^q cut after the point, and the digit for the rest
DigitsAt(v, q) == DigitsWithTail(ScaledFloor(v.m, v.e + 1, q))

\* floor(log10(2^n)) for -1100 <= n <= 1100
Log10Pow2(n) == IF n >= 0 THEN (n * 30103) \div 100000 ELSE -((-n * 30103 + 99999) \div 100000)

\* floor(log10(abs(v))) or one less, for finite v # 0
Log10Low(v) == Log10Pow2(BitLen(v.m) + v.e - 1)

Digits17At(v, q) == IF Len(DigitsAt(v, q)) > 18 THEN q - 1 ELSE q

\* The power of ten that brings abs(v) to 17 digits before the point
Scale17(v) == Digits17At(v, 16 - Log10Low(v))

\* The first 17 digits of abs(v) and one more for the rest, for finite v # 0:
\* abs(v) is about the number they spell times 10^ExactExp(v)
ExactDigits(v) == DigitsAt(v, Scale17(v))

ExactExp(v) == -Scale17(v) - 1

RECURSIVE IncDigits(_)
IncDigits(s) ==
    IF s = <<>> THEN <<"1">>
    ELSE IF s[Len(s)] = "9" THEN IncDigits(SubSeq(s, 1, Len(s) - 1)) \o <<"0">>
    ELSE SubSeq(s, 1, Len(s) - 1) \o <<Digits[DigitVal(s[Len(s)]) + 2]>>

\* Whether s, cut to its first p digits, is nearer to the next p-digit number
CutRoundsUp(s, p) ==
    \/ DigitVal(s[p + 1]) > 5
    \/ /\ DigitVal(s[p + 1]) = 5
       /\ \/ \E j \in (p + 2)..Len(s) : s[j] # "0"
          \/ DigitVal(s[p]) % 2 = 1

NearCut(s, p) == IF CutRoundsUp(s, p) THEN IncDigits(SubSeq(s, 1, p)) ELSE SubSeq(s, 1, p)

FarCut(s, p) == IF CutRoundsUp(s, p) THEN SubSeq(s, 1, p) ELSE IncDigits(SubSeq(s, 1, p))

\* The fewest digits that read back as v, and of those the nearest to v
RECURSIVE ShortestFrom(_, _, _, _)
ShortestFrom(v, s, x, p) ==
    IF p >= Len(s) THEN [digits |-> s, exp |-> x]
    ELSE IF FromDecimal(FALSE, NearCut(s, p), x + Len(s) - p) = v
    THEN [digits |-> NearCut(s, p), exp |-> x + Len(s) - p]
    ELSE IF FromDecimal(FALSE, FarCut(s, p), x + Len(s) - p) = v
    THEN [digits |-> FarCut(s, p), exp |-> x + Len(s) - p]
    ELSE ShortestFrom(v, s, x, p + 1)

\* Without the zeros at the end of the digits
DropZeros(sd) ==
    [digits |-> SubSeq(sd.digits, 1, SetMax({k \in 1..Len(sd.digits) : sd.digits[k] # "0"})),
     exp |-> sd.exp + Len(sd.digits) - SetMax({k \in 1..Len(sd.digits) : sd.digits[k] # "0"})]

Shortest(v) == DropZeros(ShortestFrom(FloatAbs(v), ExactDigits(v), ExactExp(v), 1))

Zeros(n) == [i \in 1..n |-> "0"]

\* Digits with the point after the first decpt of them
FixedText(s, decpt) ==
    IF decpt <= 0 THEN <<"0", ".">> \o Zeros(-decpt) \o s
    ELSE IF decpt >= Len(s) THEN s \o Zeros(decpt - Len(s)) \o <<".", "0">>
    ELSE SubSeq(s, 1, decpt) \o <<".">> \o SubSeq(s, decpt + 1, Len(s))

ExponentText(x) ==
    <<"e", IF x < 0 THEN "-" ELSE "+">> \o (IF Abs(x) < 10 THEN <<"0">> ELSE <<>>) \o NatToStr(Abs(x))

SciText(s, decpt) ==
    <<s[1]>> \o (IF Len(s) > 1 THEN <<".">> \o Tail(s) ELSE <<>>) \o ExponentText(decpt - 1)

DigitsText(s, decpt) ==
    IF decpt <= -4 \/ decpt > 16 THEN SciText(s, decpt) ELSE FixedText(s, decpt)

ShortestText(sd) == DigitsText(sd.digits, Len(sd.digits) + sd.exp)

\* str(v) for a float v: the shortest text that reads back as v
FloatToStr(v) ==
    IF v.kind = "nan" THEN <<"n", "a", "n">>
    ELSE (IF v.neg THEN <<"-">> ELSE <<>>)
         \o (IF v.kind = "inf" THEN <<"i", "n", "f">>
             ELSE IF v.m = <<>> THEN <<"0", ".", "0">>
             ELSE ShortestText(Shortest(v)))

-----------------------------------------------------------------------------
(* Sheet layout                                                            *)

\* reportlab.lib.units: inch = 72.0, cm = inch / 2.54, mm = cm * 0.1 (points)
cm ==
    FromDecimal(FALSE, <<"2", "8", "3", "4", "6", "4", "5", "6", "6", "9", "2", "9", "1", "3", "3", "8", "5">>, -15)
mm == FloatMul(cm, FromDecimal(FALSE, <<"1">>, -1))

\* reportlab.lib.pagesizes: A4 = (210*mm, 297*mm)
A4 == <<FloatMul(FloatOfInt(210), mm), FloatMul(FloatOfInt(297), mm)>>

AVERY_L4731 ==
    [name |-> "Avery Zweckform L4731 / L4731REV (7x27, 25.4mm x 10mm)",
     cols |-> 7,
     rows |-> 27,
     label_w |-> FloatMul(FromDecimal(FALSE, <<"2", "5", "4">>, -1), mm),
     label_h |-> FloatMul(FromDecimal(FALSE, <<"1", "0">>, 0), mm),
     gap_x |-> FloatMul(FromDecimal(FALSE, <<"2", "5">>, -2), cm),
     gap_y |-> FloatMul(FloatZero(FALSE), cm),
     margin_left |-> FloatMul(FromDecimal(FALSE, <<"8", "5">>, -2), cm),
     margin_top |-> FloatMul(FromDecimal(FALSE, <<"1", "3", "5">>, -2), cm)]

labels_per_page(layout) == layout.cols * layout.rows

pitch_x(layout) == FloatAdd(layout.label_w, layout.gap_x)

pitch_y(layout) == FloatAdd(layout.label_h, layout.gap_y)

\* math.ceil(a / b) for a >= 0, b > 0
CeilDiv(a, b) == (a + b - 1) \div b

-----------------------------------------------------------------------------
(* The canvas: what has been drawn on the open page, the finalized pages,  *)
(* and whether save() has written the document                             *)

Canvas(output_path) ==
    [filename |-> output_path, pages |-> <<>>, cur |-> <<>>, saved |-> FALSE]

\* One label in the rectangle [x, y, label_w, label_h]; `at` records the
\* caller's loop variables (index, row, column, running number) for the drawing.
draw_label(c, x, y, layout, text, kind, draw_border, at) ==
    [c EXCEPT !.cur = Append(@,
        [x |-> x, y |-> y, w |-> layout.label_w, h |-> layout.label_h,
         text |-> text, kind |-> kind, border |-> draw_border,
         i |-> at.i, r |-> at.r, col |-> at.col, number |-> at.number])]

showPage(c) == [c EXCEPT !.pages = Append(@, c.cur), !.cur = <<>>]

\* What save() writes, as the number of labels on each page
PageSizes(c) == [p \in 1..Len(c.pages) |-> Len(c.pages[p])]

\* The directory of this path refuses writes: Canvas.save() raises OSError there.
ReadOnlyPath == "/readonly/asn_labels.pdf"
WritablePath == "asn_labels.pdf"

CanWrite(path) == path # ReadOnlyPath

\* What a call that raised leaves: the message, and nothing drawn or written
Raised(msg) ==
    [raised |-> msg, c |-> NoCanvas, pages |-> 0, current |-> 0, remaining |-> 0,
     written |-> FALSE]

-----------------------------------------------------------------------------
(* generate_pdf: pages, rows and columns                                   *)

PageCount_FloorPlusOne(count, per_page) == (count \div per_page) + 1

\* pages = math.ceil(count / labels_per_page)
PageCount(count, per_page) == CeilDiv(count, per_page)

NThisPage_Full(remaining, per_page) == per_page

\* n_this_page = min(remaining, labels_per_page)
NThisPage(remaining, per_page) == Min(remaining, per_page)

LabelRow_ByRows(i, layout) == i % layout.rows

\* r = i // layout.cols
LabelRow(i, layout) == i \div layout.cols

LabelCol_ByRows(i, layout) == i \div layout.rows

\* col = i % layout.cols
LabelCol(i, layout) == i % layout.cols

-----------------------------------------------------------------------------
(* Settings keys, defaults and the baseline calibration                    *)

CalKeys == {"off_x", "off_y", "pitch_dx", "pitch_dy"}

TextKeys == {"start", "mode", "count", "pages", "prefix", "zeros", "kind"}

SettingKeys == TextKeys \cup {"border"} \cup CalKeys

DEFAULT_SETTINGS ==
    [start |-> <<"1">>,
     mode |-> <<"l", "a", "b", "e", "l", "s">>,
     count |-> IntToStr(labels_per_page(AVERY_L4731)),
     pages |-> <<"1">>,
     prefix |-> <<"A", "S", "N">>,
     zeros |-> <<"7">>,
     kind |-> <<"Q", "R">>,
     border |-> FALSE,
     off_x |-> <<"0", ".", "0">>,
     off_y |-> <<"0", ".", "0">>,
     pitch_dx |-> <<"0", ".", "0">>,
     pitch_dy |-> <<"0", ".", "0">>]

\* The floats -4.5, 7.0, 1.2, 0.42
BASE_CALIBRATION_MM ==
    [off_x |-> FromDecimal(TRUE, <<"4", "5">>, -1),
     off_y |-> FromDecimal(FALSE, <<"7">>, 0),
     pitch_dx |-> FromDecimal(FALSE, <<"1", "2">>, -1),
     pitch_dy |-> FromDecimal(FALSE, <<"4", "2">>, -2)]

-----------------------------------------------------------------------------
(* The arguments of generate_pdf called as a module-level function         *)

TestCols == 2
TestRows == 2

\* A small sheet, to make page boundaries cheap to reach.
TestLayout ==
    [name |-> "test sheet", cols |-> TestCols, rows |-> TestRows,
     label_w |-> FloatMul(FloatOfInt(20), mm), label_h |-> FloatMul(FloatOfInt(10), mm),
     gap_x |-> FloatMul(FloatOfInt(2), mm), gap_y |-> FloatMul(FloatOfInt(1), mm),
     margin_left |-> FloatMul(FloatOfInt(5), mm), margin_top |-> FloatMul(FloatOfInt(7), mm)]

GenLayoutCounts ==
    {<<TestLayout, n>> : n \in 0..(2 * labels_per_page(TestLayout) + 1)}
    \cup {<<AVERY_L4731, n>> : n \in {1, 8, labels_per_page(AVERY_L4731),
                                      labels_per_page(AVERY_L4731) + 1}}

GenStarts == {0, 1, 98, 123456}
GenZeros == {-1, 0, 2, 5}
GenPrefixes == {<<>>, <<"A">>}
GenPaths == {WritablePath, ReadOnlyPath}
\* <<offset_x_mm, offset_y_mm, pitch_dx_mm, pitch_dy_mm>>: the defaults of
\* generate_pdf, the baseline, and 2.0, -4.5, -2.0, 0.0
GenCalibrations ==
    {<<FloatZero(FALSE), FloatZero(FALSE), FloatZero(FALSE), FloatZero(FALSE)>>,
     <<BASE_CALIBRATION_MM.off_x, BASE_CALIBRATION_MM.off_y,
       BASE_CALIBRATION_MM.pitch_dx, BASE_CALIBRATION_MM.pitch_dy>>,
     <<FromDecimal(FALSE, <<"2">>, 0), FromDecimal(TRUE, <<"4", "5">>, -1),
       FromDecimal(TRUE, <<"2">>, 0), FloatZero(FALSE)>>}

GenArgs(path, start, count, prefix, zeros, kind, layout, border, cal) ==
    [output_path |-> path, start_number |-> start, count |-> count, prefix |-> prefix,
     leading_zeros |-> zeros, kind |-> kind, layout |-> layout, draw_border |-> border,
     offset_x_mm |-> cal[1], offset_y_mm |-> cal[2],
     pitch_dx_mm |-> cal[3], pitch_dy_mm |-> cal[4]]

NoHist ==
    [events |-> 0, edits |-> 0, fired |-> 0, wrote |-> FALSE, vars |-> DEFAULT_SETTINGS,
     elapsed |-> 0, saved_valid |-> FALSE, saved |-> DEFAULT_SETTINGS, resets |-> 0,
     mig_valid |-> FALSE, mig |-> [k \in CalKeys |-> DEFAULT_SETTINGS[k]]]

-----------------------------------------------------------------------------
(* Values of a decoded JSON document: str, int, float, bool and None       *)

JStr(s) == [t |-> "str", v |-> s]
JInt(n) == [t |-> "int", v |-> n]
JFloat(x) == [t |-> "float", v |-> x]
JBool(b) == [t |-> "bool", v |-> b]
JNull == [t |-> "null", v |-> 0]

BoolText(b) == IF b THEN <<"T", "r", "u", "e">> ELSE <<"F", "a", "l", "s", "e">>

\* str(value)
Str(value) ==
    CASE value.t = "str" -> value.v
      [] value.t = "int" -> IntToStr(value.v)
      [] value.t = "float" -> FloatToStr(value.v)
      [] value.t = "bool" -> BoolText(value.v)
      [] value.t = "null" -> <<"N", "o", "n", "e">>

\* bool(value)
Bool(value) ==
    CASE value.t = "str" -> value.v # <<>>
      [] value.t = "int" -> value.v # 0
      [] value.t = "float" -> ~(IsFinite(value.v) /\ value.v.m = <<>>)
      [] value.t = "bool" -> value.v
      [] value.t = "null" -> FALSE

-----------------------------------------------------------------------------
(* App: settings to and from the record of config.json                     *)

TagDelta == <<"d", "e", "l", "t", "a">>

\* The value of a Tk variable as _settings_to_dict puts it into the record
SettingValue(k, v) == IF k = "border" THEN JBool(v) ELSE JStr(v)

\* DEFAULT_SETTINGS as the dict that on_reset_config applies
DefaultSettingsDict == [k \in SettingKeys |-> SettingValue(k, DEFAULT_SETTINGS[k])]

\* _settings_to_dict, with the schema tag omitted
SettingsToDict_NoTag(tk) == [k \in SettingKeys |-> SettingValue(k, tk[k])]

\* App._settings_to_dict
SettingsToDict(tk) ==
    [k \in SettingKeys \cup {"calibration_mode"} |->
        IF k = "calibration_mode" THEN JStr(TagDelta) ELSE SettingValue(k, tk[k])]

\* App._coerce_float: the float, or None (ok = FALSE)
CoerceFloat(value) == ParseFloat(Str(value))

\* The tag of the record is not looked at
CalibrationMode_IgnoreTag(d) == <<>>

\* calibration_mode = str(d.get("calibration_mode", "")).strip().lower()
CalibrationMode(d) ==
    IF "calibration_mode" \in DOMAIN d THEN Lower(Strip(Str(d["calibration_mode"])))
    ELSE <<>>

\* The float 1e-9
ZeroTolerance == FromDecimal(FALSE, <<"1">>, -9)

\* v is not None and abs(v) < 1e-9
IsZeroFloat(parsed) == parsed.ok /\ FloatAbsLess(parsed.val, ZeroTolerance)

AllPresentZero(d, present) ==
    /\ present # {}
    /\ \A k \in present : IsZeroFloat(CoerceFloat(d[k]))

LegacyAbsoluteOf_NoHeuristic(d, mode) == mode # TagDelta

\* legacy_absolute, after the all-zero transition case (lines 306-312)
LegacyAbsoluteOf(d, mode) ==
    /\ mode # TagDelta
    /\ ~(mode = <<>> /\ AllPresentZero(d, CalKeys \cap DOMAIN d))

LegacyAbsolute(d) == LegacyAbsoluteOf(d, CalibrationMode(d))

Migrated_AddBase(raw, key, legacy, parsed) ==
    IF legacy /\ parsed.ok THEN FloatToStr(FloatAdd(parsed.val, BASE_CALIBRATION_MM[key]))
    ELSE raw

\* var.set(str(absolute - BASE_CALIBRATION_MM[key])), else var.set(str(d[key]))
Migrated(raw, key, legacy, parsed) ==
    IF legacy /\ parsed.ok THEN FloatToStr(FloatSub(parsed.val, BASE_CALIBRATION_MM[key]))
    ELSE raw

\* set_calibration_var(key, var): the text the variable holds afterwards
LoadedCalibration(d, key, old, legacy) ==
    IF key \notin DOMAIN d THEN old
    ELSE Migrated(Str(d[key]), key, legacy, CoerceFloat(d[key]))

\* var.set(str(d[key])), and var_border.set(bool(d["border"]))
LoadedValue(k, value) == IF k = "border" THEN Bool(value) ELSE Str(value)

\* The four set_calibration_var calls left out
ApplyWith_SkipCalibration(tk, d, legacy) ==
    [k \in SettingKeys |->
        IF k \in CalKeys THEN tk[k]
        ELSE IF k \in DOMAIN d THEN LoadedValue(k, d[k])
        ELSE tk[k]]

ApplyWith(tk, d, legacy) ==
    [k \in SettingKeys |->
        IF k \in CalKeys THEN LoadedCalibration(d, k, tk[k], legacy)
        ELSE IF k \in DOMAIN d THEN LoadedValue(k, d[k])
        ELSE tk[k]]

\* App._apply_settings_from_dict: the Tk variables afterwards
ApplySettingsFromDict(tk, d) == ApplyWith(tk, d, LegacyAbsolute(d))

-----------------------------------------------------------------------------
(* App: the status line for the settings file                              *)

LoadFailedMsg == "Config konnte nicht geladen werden"
WrongFormatMsg == "Config hat falsches Format, verwende Defaults"
SaveFailedMsg == "Config konnte nicht gespeichert werden"

SetConfigStatus_DropEarly(lbl, pending, message) ==
    IF lbl = NoLabel THEN [lbl |-> lbl, pending |-> pending]
    ELSE [lbl |-> message, pending |-> message]

\* App._set_config_status: the label text and the pending message afterwards
SetConfigStatus(lbl, pending, message) ==
    IF lbl = NoLabel THEN [lbl |-> lbl, pending |-> message]
    ELSE [lbl |-> message, pending |-> message]

\* App._flush_pending_config_status
FlushPendingConfigStatus(lbl, pending) ==
    IF pending # None THEN SetConfigStatus(lbl, pending, pending)
    ELSE [lbl |-> lbl, pending |-> pending]

-----------------------------------------------------------------------------
(* App: the inputs of a generation                                         *)

ModePages == <<"p", "a", "g", "e", "s">>
ModeLabels == <<"l", "a", "b", "e", "l", "s">>
KindQR == <<"Q", "R">>
KindCode128 == <<"C", "O", "D", "E", "1", "2", "8">>

NoCount == [error |-> None, count |-> 0, pages |-> 0]

\* pages mode: count = pages * labels_per_page
CountFromPages(pages) ==
    IF ~pages.ok
    THEN [NoCount EXCEPT !.error = "Anzahl A4 Blaetter ist keine gueltige Zahl."]
    ELSE IF pages.val <= 0
    THEN [NoCount EXCEPT !.error = "Anzahl A4 Blaetter muss > 0 sein."]
    ELSE [error |-> None, count |-> pages.val * labels_per_page(AVERY_L4731),
          pages |-> pages.val]

\* labels mode: pages = (count + labels_per_page - 1) // labels_per_page
PagesFromCount(count) ==
    IF ~count.ok
    THEN [NoCount EXCEPT !.error = "Anzahl Labels ist keine gueltige Zahl."]
    ELSE IF count.val <= 0
    THEN [NoCount EXCEPT !.error = "Anzahl Labels muss > 0 sein."]
    ELSE [error |-> None, count |-> count.val,
          pages |-> CeilDiv(count.val, labels_per_page(AVERY_L4731))]

\* App._effective_count_and_pages: (count, pages), or the ValueError raised
EffectiveCountAndPages(tk) ==
    IF tk.mode = ModePages THEN CountFromPages(ParseInt(tk.pages))
    ELSE PagesFromCount(ParseInt(tk.count))

NoDelta == <<FloatZero(FALSE), FloatZero(FALSE), FloatZero(FALSE), FloatZero(FALSE)>>

\* The four _parse_float calls of _calibration_delta, in their order
DeltaOf(ox, oy, pdx, pdy) ==
    IF ~ox.ok
    THEN [error |-> "Offset X ist keine gueltige Zahl (z.B. 0.2).", val |-> NoDelta]
    ELSE IF ~oy.ok
    THEN [error |-> "Offset Y ist keine gueltige Zahl (z.B. 0.2).", val |-> NoDelta]
    ELSE IF ~pdx.ok
    THEN [error |-> "Spalten-Pitch ist keine gueltige Zahl (z.B. 0.2).", val |-> NoDelta]
    ELSE IF ~pdy.ok
    THEN [error |-> "Zeilen-Pitch ist keine gueltige Zahl (z.B. 0.2).", val |-> NoDelta]
    ELSE [error |-> None, val |-> <<ox.val, oy.val, pdx.val, pdy.val>>]

\* App._calibration_delta: the four floats typed, or the ValueError raised
CalibrationDelta(tk) ==
    DeltaOf(ParseFloat(tk.off_x), ParseFloat(tk.off_y),
            ParseFloat(tk.pitch_dx), ParseFloat(tk.pitch_dy))

AddBase_NoBase(delta) == delta

\* BASE_CALIBRATION_MM[key] + delta[key], per axis
AddBase(delta) ==
    IF delta.error # None THEN delta
    ELSE [error |-> None,
          val |-> <<FloatAdd(BASE_CALIBRATION_MM.off_x, delta.val[1]),
                    FloatAdd(BASE_CALIBRATION_MM.off_y, delta.val[2]),
                    FloatAdd(BASE_CALIBRATION_MM.pitch_dx, delta.val[3]),
                    FloatAdd(BASE_CALIBRATION_MM.pitch_dy, delta.val[4])>>]

\* App._calibration: the baseline plus the delta typed
Calibration(tk) == AddBase(CalibrationDelta(tk))

NoArgs == GenArgs("", 0, 0, <<>>, 0, "QR", AVERY_L4731, FALSE, NoDelta)

NotRun == Raised(None)

\* kind = self.var_kind.get()
KindOf(tk) == IF tk.kind = KindQR THEN "QR" ELSE "CODE128"

InputsOf(start, zeros, prefix, cp, cal, kind) ==
    IF ~start.ok
    THEN [error |-> "Start-Nummer ist keine gueltige Zahl.", args |-> NoArgs]
    ELSE IF ~zeros.ok
    THEN [error |-> "Fuehrende Nullen ist keine gueltige Zahl.", args |-> NoArgs]
    ELSE IF prefix = <<>>
    THEN [error |-> "Prefix darf nicht leer sein.", args |-> NoArgs]
    ELSE IF cp.error # None THEN [error |-> cp.error, args |-> NoArgs]
    ELSE IF cal.error # None THEN [error |-> cal.error, args |-> NoArgs]
    ELSE [error |-> None,
          args |-> GenArgs("", start.val, cp.count, prefix, zeros.val, kind,
                           AVERY_L4731, FALSE, cal.val)]

\* on_generate_pdf up to the save dialog (lines 630-638): the error raised, or
\* the arguments for generate_pdf, still lacking the output path and draw_border
ReadInputs(tk) ==
    InputsOf(ParseInt(tk.start), ParseInt(tk.zeros), Strip(tk.prefix),
             EffectiveCountAndPages(tk), Calibration(tk), KindOf(tk))

-----------------------------------------------------------------------------
(* The settings files an App may find at its first start, and the edits    *)
(* of its user                                                             *)

Zero == <<"0">>
ZeroPointZero == <<"0", ".", "0">>

CalAllZero ==
    [off_x |-> JStr(Zero), off_y |-> JStr(ZeroPointZero), pitch_dx |-> JStr(Zero),
     pitch_dy |-> JStr(Zero)]
CalBaseline ==
    [off_x |-> JStr(<<"-", "4", ".", "5">>), off_y |-> JStr(<<"7", ".", "0">>),
     pitch_dx |-> JStr(<<"1", ".", "2">>), pitch_dy |-> JStr(<<"0", ".", "4", "2">>)]
CalMixed == [CalAllZero EXCEPT !.off_x = JStr(<<"2", ".", "0">>)]
CalJunk == [CalAllZero EXCEPT !.off_x = JStr(<<"a", "b", "c">>)]
CalPartial == [pitch_dx |-> JStr(<<"0", ",", "0">>)]
\* Numbers written as JSON numbers and as text: 0.3, 1 and "7,1"
CalInexact ==
    [off_y |-> JStr(<<"7", ",", "1">>),
     pitch_dx |-> JFloat(FromDecimal(FALSE, <<"3">>, -1)),
     pitch_dy |-> JInt(1)]
\* A value that is not zero and is below the tolerance of 1e-9
CalTiny == [off_x |-> JStr(<<"\t", "", "1", "e", "-", "1", "0", "", "\n">>), pitch_dy |-> JInt(0)]
\* A delta that is a float and whose offset in points is not: 1e308 mm
CalHuge == [CalAllZero EXCEPT !.off_x = JStr(<<"1", "e", "3", "0", "8">>)]

Tagged(tag, d) == [calibration_mode |-> tag] @@ d

TagDeltaSpaced == <<" ", "D", "e", "l", "t", "a", "">>
TagAbsolute == <<"a", "b", "s", "o", "l", "u", "t", "e">>

PagesModePart ==
    [start |-> JStr(<<" ", "5">>), mode |-> JStr(ModePages), pages |-> JStr(<<"0">>),
     zeros |-> JStr(<<"3">>), border |-> JBool(TRUE), kind |-> JStr(KindCode128)]

\* Values of other JSON types than the program writes
TypedPart ==
    [start |-> JInt(5), zeros |-> JStr(<<"1", "_", "0">>), border |-> JStr(<<"n", "o">>),
     off_x |-> JFloat(FromDecimal(FALSE, <<"5">>, -1)), pitch_dx |-> JNull]

InitDicts ==
    {CalAllZero, CalBaseline, CalMixed, CalJunk, CalPartial, CalInexact, CalTiny,
     Tagged(JStr(TagDelta), CalBaseline), Tagged(JStr(TagDeltaSpaced), CalMixed),
     Tagged(JStr(TagDelta), TypedPart), Tagged(JStr(TagAbsolute), CalAllZero),
     Tagged(JStr(TagDelta), CalHuge), PagesModePart}

\* config.json at the first start: missing, unreadable, not JSON, JSON that is
\* not an object, or an object
InitConfigFiles ==
    {[kind |-> k, d |-> <<>>] : k \in {"absent", "unreadable", "garbage", "notdict"}}
    \cup {[kind |-> "dict", d |-> d] : d \in InitDicts}

BadKinds == {"unreadable", "garbage", "notdict"}

EditChoices ==
    {<<"start", <<"0">>>>, <<"count", <<"a", "b", "c">>>>, <<"pages", <<"2">>>>,
     <<"zeros", <<"-", "1">>>>, <<"prefix", <<" ">>>>,
     <<"mode", ModePages>>, <<"off_x", <<"2", ",", "0">>>>, <<"border", TRUE>>}

\* The entry of the label count is enabled in mode "labels" only and the entry
\* of the sheet count in mode "pages" only (_apply_mode, lines 509-515)
Editable(tk, key) ==
    /\ key = "count" => tk.mode = ModeLabels
    /\ key = "pages" => tk.mode = ModePages

-----------------------------------------------------------------------------
(* generate_pdf: the positions of the labels                               *)

LabelX_OffsetTwice(layout, col, eff_pitch_x, off_x) ==
    FloatAdd(FloatAdd(layout.margin_left,
                      FloatMul(FloatOfInt(col), FloatAdd(eff_pitch_x, off_x))), off_x)

\* x = layout.margin_left + col * pitch_x + off_x
LabelX(layout, col, eff_pitch_x, off_x) ==
    FloatAdd(FloatAdd(layout.margin_left, FloatMul(FloatOfInt(col), eff_pitch_x)), off_x)

\* y = page_h - layout.margin_top - layout.label_h - r * pitch_y + off_y
LabelY(page_h, layout, r, eff_pitch_y, off_y) ==
    FloatAdd(FloatSub(FloatSub(FloatSub(page_h, layout.margin_top), layout.label_h),
                      FloatMul(FloatOfInt(r), eff_pitch_y)), off_y)

\* A function as the table of its values (TLC evaluates f[x] of a function
\* written [x \in S |-> e] anew at each use otherwise)
Tabulated(f) == f @@ <<>>

\* x of line 190 for each column, which is all it depends on
ColumnXs(layout, eff_pitch_x, off_x) ==
    Tabulated([col \in 0..(layout.cols - 1) |-> LabelX(layout, col, eff_pitch_x, off_x)])

\* y of line 191 for each row, which is all it depends on
RowYs(page_h, layout, eff_pitch_y, off_y) ==
    Tabulated([r \in 0..(layout.rows - 1) |-> LabelY(page_h, layout, r, eff_pitch_y, off_y)])

\* The sheets and the calibrations of the calls made here: those of the direct
\* calls, and those the window passes after a start and after one edit
KnownLayouts == {AVERY_L4731, TestLayout}

StartFields ==
    {DEFAULT_SETTINGS} \cup {ApplySettingsFromDict(DEFAULT_SETTINGS, d) : d \in InitDicts}

EditedFields ==
    UNION {{f} \cup {[f EXCEPT ![e[1]] = e[2]] : e \in EditChoices} : f \in StartFields}

KnownCalibrations ==
    GenCalibrations
    \cup {c.val : c \in {d \in {Calibration(f) : f \in EditedFields} : d.error = None}}

\* pitch_x, pitch_y, off_x, off_y of lines 173-176, and x and y of lines 190-191
\* for every column and row
Placement(layout, offset_x_mm, offset_y_mm, pitch_dx_mm, pitch_dy_mm) ==
    [xs |-> ColumnXs(layout, FloatAdd(pitch_x(layout), FloatMul(pitch_dx_mm, mm)),
                     FloatMul(offset_x_mm, mm)),
     ys |-> RowYs(A4[2], layout, FloatAdd(pitch_y(layout), FloatMul(pitch_dy_mm, mm)),
                  FloatMul(offset_y_mm, mm))]

\* Placement for the sheets and calibrations above, computed once
KnownPlacements ==
    Tabulated([k \in KnownLayouts \X KnownCalibrations |->
                  Placement(k[1], k[2][1], k[2][2], k[2][3], k[2][4])])

\* Placement, taken from the table where the table has it
PlacementAt(k) ==
    IF k \in DOMAIN KnownPlacements THEN KnownPlacements[k]
    ELSE Placement(k[1], k[2][1], k[2][2], k[2][3], k[2][4])

-----------------------------------------------------------------------------
(* generate_pdf: the loops                                                 *)

NextNumber_ResetPerPage(current, i, n_this_page, start_number) ==
    IF i + 1 = n_this_page THEN start_number ELSE current + 1

\* current += 1
NextNumber(current, i, n_this_page, start_number) == current + 1

\* A coordinate that is an infinity or a nan cannot be written into the page:
\* the first drawing operation of draw_label that formats it raises.  Values
\* of millimetres that are not finite, or so large that the product with mm or
\* with the column overflows, give such coordinates.
Drawable(x, y) == IsFinite(x) /\ IsFinite(y)

\* The body of `for i in range(n_this_page)` (st: the canvas, current and
\* whether a drawing has raised, which ends the loops; L: locals)
LabelBody(st, i, n_this_page, L) ==
    LET r == LabelRow(i, L.layout)
        col == LabelCol(i, L.layout)
        x == L.at.xs[col]
        y == L.at.ys[r]
        text == make_asn_text(L.prefix, st.current, L.leading_zeros)
        drawn == draw_label(st.c, x, y, L.layout, text, L.kind, L.draw_border,
                            [i |-> i, r |-> r, col |-> col, number |-> st.current])
    IN IF st.failed THEN st
       ELSE IF ~Drawable(x, y) THEN [st EXCEPT !.failed = TRUE]
       ELSE [st EXCEPT !.c = drawn,
                       !.current = NextNumber(st.current, i, n_this_page, L.start_number)]

\* TLC evaluates a LET definition where it is first used; this makes that place
\* explicit, so that a long loop is not evaluated as one deep chain.
Evaluated(v) == v = v

\* for i in range(lo, hi): the iterations lo, lo+1, ..., hi-1 in this order
\* (the range is evaluated in halves to keep the evaluation shallow).
RECURSIVE LabelLoop(_, _, _, _, _)
LabelLoop(st, lo, hi, n_this_page, L) ==
    IF lo >= hi THEN st
    ELSE IF hi = lo + 1 THEN LabelBody(st, lo, n_this_page, L)
    ELSE LET mid == (lo + hi) \div 2
             first == LabelLoop(st, lo, mid, n_this_page, L)
         IN CASE Evaluated(first.current) -> LabelLoop(first, mid, hi, n_this_page, L)

\* c.showPage(); remaining -= n_this_page
FinishPage(filled, n_this_page) ==
    IF filled.failed THEN filled
    ELSE [filled EXCEPT !.c = showPage(filled.c), !.remaining = filled.remaining - n_this_page]

FillPage(st, n_this_page, L) ==
    FinishPage(LabelLoop(st, 0, n_this_page, n_this_page, L), n_this_page)

\* for _ in range(pages): n_this_page = min(remaining, labels_per_page); ...
RECURSIVE PageLoop(_, _, _, _)
PageLoop(st, p, pages, L) ==
    IF p >= pages THEN st
    ELSE PageLoop(FillPage(st, NThisPage(st.remaining, L.labels_per_page), L),
                  p + 1, pages, L)

\* c.save(); return pages, current
SaveAndReturn(fin, pages, output_path) ==
    IF CanWrite(output_path)
    THEN [raised |-> "", c |-> [fin.c EXCEPT !.saved = TRUE], pages |-> pages,
          current |-> fin.current, remaining |-> fin.remaining, written |-> TRUE]
    ELSE [raised |-> "OSError", c |-> fin.c, pages |-> 0, current |-> 0,
          remaining |-> fin.remaining, written |-> FALSE]

\* The locals of generate_pdf that the loops read (lines 168-176), and the
\* x and y the loop body computes from them
Locals(start_number, prefix, leading_zeros, kind, layout, draw_border, offset_x_mm, offset_y_mm, pitch_dx_mm, pitch_dy_mm) ==
    [layout |-> layout, labels_per_page |-> labels_per_page(layout),
     at |-> PlacementAt(<<layout, <<offset_x_mm, offset_y_mm, pitch_dx_mm, pitch_dy_mm>>>>),
     prefix |-> prefix, leading_zeros |-> leading_zeros, kind |-> kind,
     draw_border |-> draw_border, start_number |-> start_number]

\* draw_label raised: the exception leaves generate_pdf, nothing is saved
DrawRaised(fin) ==
    [raised |-> "non-finite coordinate", c |-> fin.c, pages |-> 0, current |-> 0,
     remaining |-> fin.remaining, written |-> FALSE]

Finish(fin, pages, output_path) ==
    IF fin.failed THEN DrawRaised(fin) ELSE SaveAndReturn(fin, pages, output_path)

RunPages(output_path, start_number, count, pages, L) ==
    Finish(PageLoop([c |-> Canvas(output_path), current |-> start_number,
                     remaining |-> count, failed |-> FALSE], 0, pages, L),
           pages, output_path)

\* generate_pdf without the check of start_number
generate_pdf_NoStartCheck(output_path, start_number, count, prefix, leading_zeros, kind, layout, draw_border, offset_x_mm, offset_y_mm, pitch_dx_mm, pitch_dy_mm) ==
    IF count <= 0 THEN Raised("count must be > 0")
    ELSE IF leading_zeros < 0 THEN Raised("leading_zeros must be >= 0")
    ELSE IF prefix = <<>> THEN Raised("prefix must not be empty")
    ELSE RunPages(output_path, start_number, count,
                  PageCount(count, labels_per_page(layout)),
                  Locals(start_number, prefix, leading_zeros, kind, layout, draw_border,
                         offset_x_mm, offset_y_mm, pitch_dx_mm, pitch_dy_mm))

\* Returns (pages, current) in .pages and .current when .raised = "".
generate_pdf(output_path, start_number, count, prefix, leading_zeros, kind, layout, draw_border, offset_x_mm, offset_y_mm, pitch_dx_mm, pitch_dy_mm) ==
    IF count <= 0 THEN Raised("count must be > 0")
    ELSE IF start_number <= 0 THEN Raised("start_number must be > 0")
    ELSE IF leading_zeros < 0 THEN Raised("leading_zeros must be >= 0")
    ELSE IF prefix = <<>> THEN Raised("prefix must not be empty")
    ELSE RunPages(output_path, start_number, count,
                  PageCount(count, labels_per_page(layout)),
                  Locals(start_number, prefix, leading_zeros, kind, layout, draw_border,
                         offset_x_mm, offset_y_mm, pitch_dx_mm, pitch_dy_mm))

-----------------------------------------------------------------------------
(* generate_pdf called as a module-level function                          *)

Generate(a) ==
    generate_pdf(a.output_path, a.start_number, a.count, a.prefix, a.leading_zeros,
                 a.kind, a.layout, a.draw_border, a.offset_x_mm, a.offset_y_mm,
                 a.pitch_dx_mm, a.pitch_dy_mm)

InitGen ==
    /\ tkvar = DEFAULT_SETTINGS
    /\ _loading_settings = FALSE
    /\ _save_job = NoJob
    /\ _pending_config_status = None
    /\ lbl_config_status = NoLabel
    /\ after_queue = {}
    /\ config_file = [kind |-> "absent"]
    /\ pc = "module"
    /\ gen = NoCall
    /\ pdf_file = NoFile
    /\ errorbox = None
    /\ save_dialog = NoDialog
    /\ hist = NoHist

CallGeneratePdf ==
    /\ pc = "module"
    /\ gen = NoCall
    /\ \E path \in GenPaths, lc \in GenLayoutCounts, start \in GenStarts,
          prefix \in GenPrefixes, zeros \in GenZeros, cal \in GenCalibrations :
         \E a \in {GenArgs(path, start, lc[2], prefix, zeros, "QR", lc[1], FALSE, cal)} :
         \E res \in {Generate(a)} :
            /\ gen' = [via |-> "call", outcome |-> IF res.raised = "" THEN "ok" ELSE "error",
                        fields |-> DEFAULT_SETTINGS, dialog |-> path,
                        args |-> a, res |-> res]
            /\ pdf_file' = IF res.written
                           THEN [exists |-> TRUE, pages |-> PageSizes(res.c),
                                 by |-> DEFAULT_SETTINGS]
                           ELSE pdf_file
    /\ UNCHANGED <<tkvar, _loading_settings, _save_job, _pending_config_status,
                   lbl_config_status, after_queue, config_file, pc, errorbox,
                   save_dialog, hist>>

NextGen == CallGeneratePdf

SpecGen == InitGen /\ [][NextGen]_vars

-----------------------------------------------------------------------------
(* App.__init__                                                            *)

MaxEvents == 2
\* self.after(500, self._save_settings_now)
AutosaveDelayMs == 500
\* Time advances in steps of this many milliseconds.
TickMs == 250

Init ==
    /\ tkvar = DEFAULT_SETTINGS
    /\ _loading_settings = FALSE
    /\ _save_job = NoJob
    /\ _pending_config_status = None
    /\ lbl_config_status = NoLabel
    /\ after_queue = {}
    /\ config_file \in InitConfigFiles
    /\ pc = "constructed"
    /\ gen = NoCall
    /\ pdf_file = NoFile
    /\ errorbox = None
    /\ save_dialog = NoDialog
    /\ hist = NoHist

\* History: the calibration values a record not tagged delta was first loaded as,
\* kept until the user changes a calibration field or resets
NoteMigration(h, file, tk) ==
    IF file.kind = "dict" /\ ~h.mig_valid /\ CalibrationMode(file.d) # TagDelta
    THEN [h EXCEPT !.mig_valid = TRUE, !.mig = [k \in CalKeys |-> tk[k]]]
    ELSE h

\* App._load_settings (called at line 255)
LoadSettings ==
    /\ pc = "constructed"
    /\ pc' = "loaded"
    /\ IF config_file.kind = "dict"
       THEN /\ tkvar' = ApplySettingsFromDict(tkvar, config_file.d)
            /\ UNCHANGED <<lbl_config_status, _pending_config_status>>
       ELSE IF config_file.kind = "absent"
       THEN UNCHANGED <<tkvar, lbl_config_status, _pending_config_status>>
       ELSE LET msg == IF config_file.kind = "notdict" THEN WrongFormatMsg
                       ELSE LoadFailedMsg
                after == SetConfigStatus(lbl_config_status, _pending_config_status, msg)
            IN /\ lbl_config_status' = after.lbl
               /\ _pending_config_status' = after.pending
               /\ UNCHANGED tkvar
    /\ hist' = NoteMigration(hist, config_file, tkvar')
    /\ UNCHANGED <<_loading_settings, _save_job, after_queue, config_file, gen,
                   pdf_file, errorbox, save_dialog>>

\* _build_ui and _flush_pending_config_status (lines 258-261): the status label
\* is created empty, then shows the pending message
BuildUI ==
    /\ pc = "loaded"
    /\ pc' = "built"
    /\ LET after == FlushPendingConfigStatus("", _pending_config_status)
       IN /\ lbl_config_status' = after.lbl
          /\ _pending_config_status' = after.pending
    /\ UNCHANGED <<tkvar, _loading_settings, _save_job, after_queue, config_file, gen,
                   pdf_file, errorbox, save_dialog, hist>>

\* _install_autosave_traces (line 264): from here on writes schedule a save
InstallAutosaveTraces ==
    /\ pc = "built"
    /\ pc' = "ready"
    /\ UNCHANGED <<tkvar, _loading_settings, _save_job, _pending_config_status,
                   lbl_config_status, after_queue, config_file, gen, pdf_file,
                   errorbox, save_dialog, hist>>

-----------------------------------------------------------------------------
(* Autosave                                                                *)

ScheduleSave_NoCancel(job, queue) ==
    [job |-> job + 1,
     queue |-> queue \cup {[id |-> job + 1, remaining |-> AutosaveDelayMs]}]

\* App._schedule_save outside loading: cancel the job held, start a new one
ScheduleSave(job, queue) ==
    [job |-> job + 1,
     queue |-> {j \in queue : j.id # job}
               \cup {[id |-> job + 1, remaining |-> AutosaveDelayMs]}]

\* A write of a watched variable: its trace calls _schedule_save
TraceWrite(h, tk) == [h EXCEPT !.edits = IF after_queue = {} THEN 1 ELSE @ + 1,
                               !.fired = IF after_queue = {} THEN 0 ELSE @,
                               !.wrote = IF after_queue = {} THEN FALSE ELSE @,
                               !.vars = tk, !.elapsed = 0,
                               !.mig_valid = @ /\ \A k \in CalKeys : tk[k] = tkvar[k]]

\* The user writes one field through its widget; the write trace calls
\* _schedule_save whether or not the value written is a new one
Edit ==
    /\ pc = "ready"
    /\ hist.events < MaxEvents
    /\ \E e \in EditChoices :
         /\ Editable(tkvar, e[1])
         /\ tkvar' = [tkvar EXCEPT ![e[1]] = e[2]]
    /\ LET after == ScheduleSave(_save_job, after_queue)
       IN /\ _save_job' = after.job
          /\ after_queue' = after.queue
    /\ hist' = [TraceWrite(hist, tkvar') EXCEPT !.events = @ + 1]
    /\ UNCHANGED <<_loading_settings, _pending_config_status, lbl_config_status,
                   config_file, pc, gen, pdf_file, errorbox, save_dialog>>

\* The event loop runs in the main window and inside the save dialog
InEventLoop == pc \in {"ready", "dialog"}

\* Time passes for the pending after() job
Tick ==
    /\ InEventLoop
    /\ \E j \in after_queue : j.remaining > 0
    /\ after_queue' = {[j EXCEPT !.remaining = IF @ > TickMs THEN @ - TickMs ELSE 0] :
                           j \in after_queue}
    /\ hist' = [hist EXCEPT !.elapsed = Min(@ + TickMs, AutosaveDelayMs)]
    /\ UNCHANGED <<tkvar, _loading_settings, _save_job, _pending_config_status,
                   lbl_config_status, config_file, pc, gen, pdf_file, errorbox,
                   save_dialog>>

\* App._save_settings_now: the file and the status afterwards; ok tells whether
\* the file system accepts the write
SaveSettingsNow(tk, file, lbl, pending, loading, ok) ==
    IF loading THEN [file |-> file, status |-> [lbl |-> lbl, pending |-> pending]]
    ELSE [file |-> IF ok THEN [kind |-> "dict", d |-> SettingsToDict(tk)] ELSE file,
          status |-> SetConfigStatus(lbl, pending, IF ok THEN "" ELSE SaveFailedMsg)]

\* The effect of _save_settings_now run from the timer
Saved(after, ok) ==
    /\ config_file' = after.file
    /\ lbl_config_status' = after.status.lbl
    /\ _pending_config_status' = after.status.pending
    /\ hist' = [hist EXCEPT !.fired = @ + 1, !.wrote = ok,
                            !.saved_valid = IF ok THEN TRUE ELSE @,
                            !.saved = IF ok THEN tkvar ELSE @]

\* The after() job is due: Tk runs _save_settings_now
TimerFire ==
    /\ InEventLoop
    /\ \E j \in after_queue :
         /\ j.remaining = 0
         /\ after_queue' = after_queue \ {j}
    /\ \E ok \in BOOLEAN :
         Saved(SaveSettingsNow(tkvar, config_file, lbl_config_status,
                               _pending_config_status, _loading_settings, ok), ok)
    /\ UNCHANGED <<tkvar, _loading_settings, _save_job, pc, gen, pdf_file, errorbox,
                   save_dialog>>

-----------------------------------------------------------------------------
(* The buttons                                                             *)

DialogAnswers == {"", WritablePath, ReadOnlyPath}

\* What one run of on_generate_pdf did: the fields it read, the answer of the
\* save dialog, the arguments and result of generate_pdf, and which event it was
AppCall(outcome, fields, out, a, res, at) ==
    [via |-> "app", outcome |-> outcome, fields |-> fields, dialog |-> out,
     args |-> a, res |-> res, at |-> at]

\* on_generate_pdf, a field does not parse or is refused: showerror (line 671)
GenerateInputError(in) ==
    /\ in.error # None
    /\ errorbox' = in.error
    /\ gen' = AppCall("error", tkvar, "", NoArgs, NotRun, hist.events + 1)
    /\ UNCHANGED <<pc, save_dialog>>

\* filedialog.asksaveasfilename (line 641) opens: the locals read so far wait
\* while the dialog runs the event loop
OpenSaveDialog(in) ==
    /\ in.error = None
    /\ pc' = "dialog"
    /\ save_dialog' = [open |-> TRUE, args |-> in.args, fields |-> tkvar]
    /\ UNCHANGED <<gen, errorbox>>

\* App.on_generate_pdf up to the save dialog (lines 628-646)
OnGeneratePdf ==
    /\ pc = "ready"
    /\ hist.events < MaxEvents
    /\ \E in \in {ReadInputs(tkvar)} :
         \/ GenerateInputError(in)
         \/ OpenSaveDialog(in)
    /\ hist' = [hist EXCEPT !.events = @ + 1]
    /\ UNCHANGED <<tkvar, _loading_settings, _save_job, _pending_config_status,
                   lbl_config_status, after_queue, config_file, pdf_file>>

\* The fields as on_generate_pdf has read them: var_border is read after the
\* dialog (line 658)
FieldsRead == [save_dialog.fields EXCEPT !.border = tkvar.border]

\* on_generate_pdf, the save dialog is cancelled: return (line 648)
GenerateCancelled ==
    /\ gen' = AppCall("cancel", FieldsRead, "", save_dialog.args, NotRun, hist.events)
    /\ UNCHANGED <<tkvar, _save_job, after_queue, pdf_file, errorbox, hist>>

\* generate_pdf raised and the start field is advanced all the same
GenerateFailed_AdvancesStart(out, a, res) ==
    /\ res.raised # ""
    /\ gen' = AppCall("error", FieldsRead, out, a, res, hist.events)
    /\ errorbox' = res.raised
    /\ tkvar' = [tkvar EXCEPT !.start = IntToStr(a.start_number + a.count)]
    /\ UNCHANGED <<_save_job, after_queue, pdf_file, hist>>

\* generate_pdf raised: showerror (line 671)
GenerateFailed(out, a, res) ==
    /\ res.raised # ""
    /\ gen' = AppCall("error", FieldsRead, out, a, res, hist.events)
    /\ errorbox' = res.raised
    /\ UNCHANGED <<tkvar, _save_job, after_queue, pdf_file, hist>>

\* generate_pdf returned: var_start.set(str(next_number)), whose trace
\* schedules a save (lines 665-669)
GenerateDone(out, a, res, sched) ==
    /\ res.raised = ""
    /\ gen' = AppCall("ok", FieldsRead, out, a, res, hist.events)
    /\ tkvar' = [tkvar EXCEPT !.start = IntToStr(res.current)]
    /\ _save_job' = sched.job
    /\ after_queue' = sched.queue
    /\ pdf_file' = [exists |-> TRUE, pages |-> PageSizes(res.c), by |-> FieldsRead]
    /\ hist' = TraceWrite(hist, tkvar')
    /\ UNCHANGED errorbox

\* on_generate_pdf, generate_pdf is called with the path chosen and the border
\* setting of this moment (lines 650-671)
GenerateCalled(out) ==
    \E a \in {[save_dialog.args EXCEPT !.output_path = out,
                                       !.draw_border = tkvar.border]} :
    \E res \in {Generate(a)} :
      \/ GenerateFailed(out, a, res)
      \/ GenerateDone(out, a, res, ScheduleSave(_save_job, after_queue))

\* App.on_generate_pdf from the answer of the save dialog on (lines 647-671)
SaveDialogAnswered ==
    /\ pc = "dialog"
    /\ pc' = "ready"
    /\ save_dialog' = NoDialog
    /\ \E out \in DialogAnswers :
         IF out = "" THEN GenerateCancelled ELSE GenerateCalled(out)
    /\ UNCHANGED <<_loading_settings, _pending_config_status, lbl_config_status,
                   config_file>>

DeleteFailedMsg == "Konnte config nicht loeschen"

\* on_reset_config after the unlink (lines 702-710): the defaults are applied
\* with traces suppressed by _loading_settings, then saved at once
ResetSaved(applied, after, ok) ==
    /\ tkvar' = applied
    /\ config_file' = after.file
    /\ lbl_config_status' = after.status.lbl
    /\ _pending_config_status' = after.status.pending
    /\ hist' = [hist EXCEPT !.events = @ + 1, !.edits = 0, !.fired = 0,
                            !.wrote = FALSE, !.saved_valid = ok, !.saved = applied,
                            !.resets = @ + 1, !.mig_valid = FALSE]
    /\ UNCHANGED errorbox

ResetDone(applied, ok) ==
    ResetSaved(applied,
               SaveSettingsNow(applied, [kind |-> "absent", d |-> <<>>],
                               lbl_config_status, _pending_config_status,
                               _loading_settings, ok),
               ok)

\* App.on_reset_config: the question, unlink, the defaults, a save at once
OnResetConfig ==
    /\ pc = "ready"
    /\ hist.events < MaxEvents
    /\ \E confirmed \in BOOLEAN, unlink_ok \in BOOLEAN, ok \in BOOLEAN :
         IF ~confirmed
         THEN /\ unlink_ok /\ ok
              /\ hist' = [hist EXCEPT !.events = @ + 1]
              /\ UNCHANGED <<tkvar, config_file, lbl_config_status,
                             _pending_config_status, errorbox>>
         ELSE IF config_file.kind # "absent" /\ ~unlink_ok
         THEN /\ ok
              /\ errorbox' = DeleteFailedMsg
              /\ hist' = [hist EXCEPT !.events = @ + 1]
              /\ UNCHANGED <<tkvar, config_file, lbl_config_status,
                             _pending_config_status>>
         ELSE /\ config_file.kind = "absent" => unlink_ok
              /\ ResetDone(ApplySettingsFromDict(tkvar, DefaultSettingsDict), ok)
    /\ UNCHANGED <<_loading_settings, _save_job, after_queue, pc, gen, pdf_file,
                   save_dialog>>

\* The window is closed and the program started again: a new App, the same disk
Restart ==
    /\ pc = "ready"
    /\ hist.events < MaxEvents
    /\ tkvar' = DEFAULT_SETTINGS
    /\ _loading_settings' = FALSE
    /\ _save_job' = NoJob
    /\ _pending_config_status' = None
    /\ lbl_config_status' = NoLabel
    /\ after_queue' = {}
    /\ pc' = "constructed"
    /\ gen' = NoCall
    /\ errorbox' = None
    /\ hist' = [hist EXCEPT !.events = @ + 1, !.edits = 0, !.fired = 0, !.wrote = FALSE,
                            !.elapsed = 0, !.resets = 0]
    /\ UNCHANGED <<config_file, pdf_file, save_dialog>>

Next ==
    \/ LoadSettings
    \/ BuildUI
    \/ InstallAutosaveTraces
    \/ Edit
    \/ Tick
    \/ TimerFire
    \/ OnGeneratePdf
    \/ SaveDialogAnswered
    \/ OnResetConfig
    \/ Restart

Spec == Init /\ [][Next]_vars

-----------------------------------------------------------------------------
(* Observations on a call of generate_pdf                                  *)

RECURSIVE Concat(_)
Concat(seqs) == IF seqs = <<>> THEN <<>> ELSE Head(seqs) \o Concat(Tail(seqs))

\* The labels of the canvas in emission order.
Emitted(c) == Concat(c.pages) \o c.cur

ValidArgs(a) ==
    a.count > 0 /\ a.start_number > 0 /\ a.leading_zeros >= 0 /\ a.prefix # <<>>

NumericPart(a, lab) == SubSeq(lab.text, Len(a.prefix) + 1, Len(lab.text))

GenRan == gen.via # "none" /\ ValidArgs(gen.args)

\* C1: for valid input generate_pdf emits exactly `count` labels whose numbers, as
\* printed in the label texts, are start, start+1, ..., start+count-1 in emission
\* order across page boundaries, and the returned next number is start + count.
C1_ConsecutiveNumbers ==
    GenRan =>
        LET a == gen.args
            labs == Emitted(gen.res.c)
        IN /\ Len(labs) = a.count
           /\ \A k \in 1..Len(labs) :
                /\ AllDigits(NumericPart(a, labs[k]))
                /\ DigitsToNat(NumericPart(a, labs[k])) = a.start_number + k - 1
                /\ SubSeq(labs[k].text, 1, Len(a.prefix)) = a.prefix
           /\ gen.res.raised = "" => gen.res.current = a.start_number + a.count

C1_Witness ==
    /\ GenRan
    /\ gen.res.raised = ""
    /\ Len(gen.res.c.pages) >= 3
    /\ gen.args.start_number = 98
    /\ gen.res.current = 98 + gen.args.count

\* C2: the number of pages finalized and the page count returned both equal
\* ceil(count / (columns x rows)): the least p with p * columns * rows >= count;
\* on the 7 x 27 sheet 189 labels make 1 page and 190 make 2.
C2_PageCount ==
    GenRan =>
        LET a == gen.args
            per == a.layout.cols * a.layout.rows
            p == Len(gen.res.c.pages)
        IN /\ p * per >= a.count
           /\ (p - 1) * per < a.count
           /\ gen.res.c.cur = <<>>
           /\ gen.res.raised = "" => gen.res.pages = p
           /\ (a.layout.cols = 7 /\ a.layout.rows = 27 /\ a.count = 189) => p = 1
           /\ (a.layout.cols = 7 /\ a.layout.rows = 27 /\ a.count = 190) => p = 2

C2_Witness ==
    /\ GenRan
    /\ gen.res.raised = ""
    /\ gen.args.layout = AVERY_L4731
    /\ gen.args.count = 190
    /\ gen.res.pages = 2
    /\ Len(gen.res.c.pages[2]) = 1

\* C3: the label at 0-based index i of its page is placed at row i div columns and
\* column i mod columns, inside the grid, and no two labels of a page share a cell.
C3_RowMajor ==
    GenRan =>
        LET a == gen.args
        IN \A p \in 1..Len(gen.res.c.pages) :
             LET page == gen.res.c.pages[p]
             IN /\ \A k \in 1..Len(page) :
                     /\ page[k].i = k - 1
                     /\ page[k].r = (k - 1) \div a.layout.cols
                     /\ page[k].col = (k - 1) % a.layout.cols
                     /\ 0 <= page[k].col /\ page[k].col < a.layout.cols
                     /\ 0 <= page[k].r /\ page[k].r < a.layout.rows
                /\ \A k1, k2 \in 1..Len(page) :
                     (page[k1].r = page[k2].r /\ page[k1].col = page[k2].col) => k1 = k2

C3_Witness ==
    /\ GenRan
    /\ gen.args.layout = AVERY_L4731
    /\ Len(gen.res.c.pages) = 2
    /\ Len(gen.res.c.pages[1]) = 189
    /\ gen.res.c.pages[1][9].r = 1
    /\ gen.res.c.pages[1][9].col = 1

RECURSIVE NumDigits(_)
NumDigits(n) == IF n < 10 THEN 1 ELSE 1 + NumDigits(n \div 10)

\* C7: zero-padding never truncates: for every number >= 1 and width >= 0 the
\* numeric part of the label text has exactly max(width, decimal digits of the
\* number) characters and denotes the number; 123456 at width 5 gives "123456".
C7_PaddingNeverTruncates ==
    GenRan =>
        LET a == gen.args
            labs == Emitted(gen.res.c)
        IN \A k \in 1..Len(labs) :
             LET num == NumericPart(a, labs[k])
             IN /\ labs[k].number >= 1
                /\ Len(num) = Max(a.leading_zeros, NumDigits(labs[k].number))
                /\ AllDigits(num)
                /\ DigitsToNat(num) = labs[k].number
                /\ (labs[k].number = 123456 /\ a.leading_zeros = 5)
                      => num = <<"1", "2", "3", "4", "5", "6">>

C7_Witness ==
    /\ GenRan
    /\ gen.args.leading_zeros = 5
    /\ gen.args.start_number = 123456
    /\ Emitted(gen.res.c)[1].text = <<"A", "1", "2", "3", "4", "5", "6">>

-----------------------------------------------------------------------------
(* Observations on a generation started from the window                    *)

\* This step is a run of on_generate_pdf that has ended: with an error shown,
\* with the dialog cancelled, or with generate_pdf returned
GenerateStep == gen'.via = "app" /\ gen' # gen

\* generate_pdf was entered from on_generate_pdf and got past its validation
AppGeneratedIn(g) == g.via = "app" /\ g.res.raised \in {"", "OSError"}

AppGenerated == AppGeneratedIn(gen)

\* The four calibration fields as the user left them, as floats
UserDelta(f) ==
    [off_x |-> ParseFloat(f.off_x).val, off_y |-> ParseFloat(f.off_y).val,
     pitch_dx |-> ParseFloat(f.pitch_dx).val, pitch_dy |-> ParseFloat(f.pitch_dy).val]

\* The effective values of four floats of millimetres on a layout: the two
\* offsets in points, and the base pitches widened by the two pitch values
Lengths(layout, cal) ==
    <<FloatMul(cal[1], mm), FloatMul(cal[2], mm),
      FloatAdd(pitch_x(layout), FloatMul(cal[3], mm)),
      FloatAdd(pitch_y(layout), FloatMul(cal[4], mm))>>

\* x of each column: left margin + column x pitch + offset
ColumnX(layout, u) ==
    [col \in 0..(layout.cols - 1) |->
        FloatAdd(FloatAdd(layout.margin_left, FloatMul(FloatOfInt(col), u[3])), u[1])]

\* y of each row: page height - top margin - label height - row x pitch + offset
RowY(layout, u) ==
    [r \in 0..(layout.rows - 1) |->
        FloatAdd(FloatSub(FloatSub(FloatSub(A4[2], layout.margin_top), layout.label_h),
                          FloatMul(FloatOfInt(r), u[4])), u[2])]

\* Where the four values cal put the columns and the rows of a layout
Expected(layout, cal) ==
    [xs |-> Tabulated(ColumnX(layout, Lengths(layout, cal))),
     ys |-> Tabulated(RowY(layout, Lengths(layout, cal)))]

\* Expected for the sheets and calibrations of the calls made here, computed once
KnownExpected ==
    Tabulated([k \in KnownLayouts \X KnownCalibrations |-> Expected(k[1], k[2])])

ExpectedAt(k) == IF k \in DOMAIN KnownExpected THEN KnownExpected[k] ELSE Expected(k[1], k[2])

AllPlacedAt(labs, xs, ys) ==
    \A k \in 1..Len(labs) : labs[k].x = xs[labs[k].col] /\ labs[k].y = ys[labs[k].r]

\* Every label lies where the four values cal put its column and its row
PlacedBy(labs, layout, cal) ==
    \E e \in {ExpectedAt(<<layout, cal>>)} : AllPlacedAt(labs, e.xs, e.ys)

\* What a finished generation shows. generate_pdf places every label at
\* x = left margin + column x (base pitch-x + pitch delta-x) + offset-x and
\* y = page height - top margin - label height - row x (base pitch-y + pitch
\* delta-y) + offset-y for the four values it is passed, whatever their sign; the
\* window passes the fixed baseline (-4.5, 7.0, 1.2, 0.42 mm) plus the user's
\* delta on each axis, so with all four user deltas at 0 the labels lie at the
\* base layout displaced by the baseline.
PlacedAdditively(g) ==
    AppGeneratedIn(g) =>
        /\ g.args.offset_x_mm
              = FloatAdd(BASE_CALIBRATION_MM.off_x, ParseFloat(g.fields.off_x).val)
        /\ g.args.offset_y_mm
              = FloatAdd(BASE_CALIBRATION_MM.off_y, ParseFloat(g.fields.off_y).val)
        /\ g.args.pitch_dx_mm
              = FloatAdd(BASE_CALIBRATION_MM.pitch_dx, ParseFloat(g.fields.pitch_dx).val)
        /\ g.args.pitch_dy_mm
              = FloatAdd(BASE_CALIBRATION_MM.pitch_dy, ParseFloat(g.fields.pitch_dy).val)
        /\ \E labs \in {Emitted(g.res.c)} :
              /\ Len(labs) = g.args.count
              /\ PlacedBy(labs, g.args.layout,
                          <<g.args.offset_x_mm, g.args.offset_y_mm,
                            g.args.pitch_dx_mm, g.args.pitch_dy_mm>>)

\* C4: calibration is additive, for every run of on_generate_pdf: the values
\* passed to generate_pdf are the baseline plus the user's delta on each axis,
\* and every label lies at left margin + column x (base pitch-x + pitch-x passed)
\* + offset-x passed, and at page height - top margin - label height - row x
\* (base pitch-y + pitch-y passed) + offset-y passed.
C4_CalibrationAdditive == [][GenerateStep => \E g \in {gen'} : PlacedAdditively(g)]_vars

AllDeltasZero(d) == \A k \in CalKeys : d[k] = FloatZero(FALSE)

\* A generation with all four user deltas at 0: the label of row 1, column 1
\* lies at the base position (103.18110236220471, 746.9291338582677 points)
\* displaced by the baseline
C4_Witness ==
    /\ AppGenerated
    /\ gen.res.raised = ""
    /\ AllDeltasZero(UserDelta(gen.fields))
    /\ Emitted(gen.res.c)[9].col = 1
    /\ Emitted(gen.res.c)[9].r = 1
    /\ Emitted(gen.res.c)[9].x
          = FromDecimal(FALSE, <<"9", "3", "8", "2", "6", "7", "7", "1", "6", "5", "3", "5", "4", "3", "2", "9">>, -14)
    /\ Emitted(gen.res.c)[9].y
          = FromDecimal(FALSE, <<"7", "6", "5", "5", "8", "1", "1", "0", "2", "3", "6", "2", "2", "0", "4", "8">>, -13)

\* C4 as stated: the window's deltas alone widen the pitch and move the origin,
\* and with all four at 0 every label lies exactly at the base layout position.
C4_Original ==
    AppGenerated =>
        \E d \in {UserDelta(gen.fields)} :
            PlacedBy(Emitted(gen.res.c), gen.args.layout,
                     <<d.off_x, d.off_y, d.pitch_dx, d.pitch_dy>>)

-----------------------------------------------------------------------------
(* Observations on loading and saving the settings                         *)

\* A record has been read by _load_settings and applied
LoadedDict == pc = "loaded" /\ config_file.kind = "dict"

\* The calibration keys the record holds
Present(d) == CalKeys \cap DOMAIN d

\* The value is a number
IsNumber(value) == ParseFloat(Str(value)).ok

NumberOf(value) == ParseFloat(Str(value)).val

\* The value is a number of magnitude below 1e-9
NearZero(value) ==
    IsNumber(value) /\ FloatAbsLess(NumberOf(value), FromDecimal(FALSE, <<"1">>, -9))

\* The record carries no tag and every calibration value it holds is a number
\* of magnitude below 1e-9
UntaggedAllZero(d) ==
    /\ CalibrationMode(d) = <<>>
    /\ \A j \in Present(d) : NearZero(d[j])

\* The variable of key k holds the float V - B
LoadedAsDifference(d, k) ==
    ParseFloat(tkvar[k])
        = [ok |-> TRUE, val |-> FloatSub(NumberOf(d[k]), BASE_CALIBRATION_MM[k])]

\* C5: migration on load. A record tagged delta (in any letter case, white space
\* around it ignored) has its stored calibration values loaded unchanged, as the
\* text str() gives. A record without that tag has each numeric calibration value
\* V on an axis with baseline B loaded as the float V - B, except that a record
\* with no tag at all whose stored calibration values are all numbers of
\* magnitude below 1e-9 is loaded unchanged; a value that is not a number is
\* loaded unchanged, and a key the record lacks keeps its default.
C5_Migration ==
    LoadedDict =>
        /\ \A k \in Present(config_file.d) :
             IF CalibrationMode(config_file.d) = TagDelta
                \/ UntaggedAllZero(config_file.d)
                \/ ~IsNumber(config_file.d[k])
             THEN tkvar[k] = Str(config_file.d[k])
             ELSE LoadedAsDifference(config_file.d, k)
        /\ \A k \in CalKeys \ Present(config_file.d) : tkvar[k] = DEFAULT_SETTINGS[k]

\* The untagged record with off_y "7.1", pitch_dx 0.3 and pitch_dy 1 is loaded
\* as the float differences 7.1 - 7.0, 0.3 - 1.2 and 1 - 0.42
C5_Witness ==
    /\ LoadedDict
    /\ config_file.d = CalInexact
    /\ tkvar.off_x = ZeroPointZero
    /\ tkvar.off_y = <<"0", ".", "0", "9", "9", "9", "9", "9", "9", "9", "9", "9", "9", "9", "9", "9", "9", "6", "4">>
    /\ tkvar.pitch_dx = <<"-", "0", ".", "8", "9", "9", "9", "9", "9", "9", "9", "9", "9", "9", "9", "9", "9", "9", "9">>
    /\ tkvar.pitch_dy = <<"0", ".", "5", "8", "0", "0", "0", "0", "0", "0", "0", "0", "0", "0", "0", "0", "0", "1">>

\* C5 as stated: every record without the delta tag has each numeric calibration
\* value V loaded as V - B, and a record with the tag is loaded unchanged.
C5_Original ==
    LoadedDict =>
        \A k \in Present(config_file.d) :
            IF CalibrationMode(config_file.d) = TagDelta
            THEN tkvar[k] = Str(config_file.d[k])
            ELSE IsNumber(config_file.d[k]) => LoadedAsDifference(config_file.d, k)

\* The fields on_generate_pdf reads are not all usable: a number that does not
\* parse, start <= 0, a negative padding width, a blank prefix, or a quantity
\* (labels or sheets, by mode) that is not a positive number
InvalidFields(f) ==
    \/ ~ParseInt(f.start).ok
    \/ ParseInt(f.start).val <= 0
    \/ ~ParseInt(f.zeros).ok
    \/ ParseInt(f.zeros).val < 0
    \/ Strip(f.prefix) = <<>>
    \/ f.mode = ModePages /\ (~ParseInt(f.pages).ok \/ ParseInt(f.pages).val <= 0)
    \/ f.mode # ModePages /\ (~ParseInt(f.count).ok \/ ParseInt(f.count).val <= 0)
    \/ \E k \in CalKeys : ~ParseFloat(f[k]).ok

\* An invalid input (count <= 0, start <= 0, negative padding width, empty
\* prefix, or a field that is not a number) ends on_generate_pdf without a label
\* drawn, a page finalized or a file written, and with the error shown unless the
\* save dialog was cancelled first; no PDF on disk was made from invalid input.
InvalidInputFailsFirst(g, box, file) ==
    /\ (g.via = "app" /\ InvalidFields(g.fields)) =>
          /\ g.outcome \in {"error", "cancel"}
          /\ g.outcome = "error" => box \notin {None, "OSError"}
          /\ g.outcome = "cancel" => g.dialog = ""
          /\ g.res.c = NoCanvas
          /\ ~g.res.written
    /\ file.exists => ~InvalidFields(file.by)
    /\ (g.via = "app" /\ g.outcome = "ok") => ~InvalidFields(g.fields)

\* C6: every run of on_generate_pdf on invalid input (count <= 0, start <= 0,
\* negative padding width, empty prefix, a field that is not a number) ends with
\* no label drawn, no page finalized and no file written, and with the error
\* shown unless the save dialog was cancelled first; the PDF on disk is never
\* one made from invalid input.
C6_InvalidInputFailsFirst ==
    [][GenerateStep => \E g \in {gen'}, box \in {errorbox'}, file \in {pdf_file'} :
                          InvalidInputFailsFirst(g, box, file)]_vars

\* start = 0 passes the window's parsing and is refused by generate_pdf itself
C6_Witness ==
    /\ gen.via = "app"
    /\ gen.outcome = "error"
    /\ ParseInt(gen.fields.start) = [ok |-> TRUE, val |-> 0]
    /\ gen.dialog = WritablePath
    /\ errorbox = "start_number must be > 0"
    /\ gen.res.c = NoCanvas
    /\ ~pdf_file.exists

\* C8: settings round-trip through save and load: once _save_settings_now has
\* written the settings, a new start that loads the file leaves every setting,
\* the four calibration values included, equal to its value at the save.
C8_RoundTrip ==
    (pc = "loaded" /\ hist.saved_valid) =>
        /\ config_file = [kind |-> "dict", d |-> SettingsToDict(hist.saved)]
        /\ \A k \in SettingKeys : tkvar[k] = hist.saved[k]

\* A calibration value typed with a comma was saved and is read back as typed
C8_Witness ==
    /\ pc = "loaded"
    /\ hist.saved_valid
    /\ hist.saved.off_x = <<"2", ",", "0">>
    /\ tkvar.off_x = <<"2", ",", "0">>
    /\ tkvar # DEFAULT_SETTINGS

\* C9: debounced persistence. At most one save job is pending at any time. In a
\* burst of edits, each made while the job of the one before is still pending,
\* no write happens before the last edit's 500 ms have elapsed, exactly one
\* write attempt follows the burst, and the file it writes holds the values of
\* the last edit.
C9_Debounce ==
    /\ Cardinality(after_queue) <= 1
    /\ \A j \in after_queue : j.id = _save_job /\ j.remaining <= AutosaveDelayMs
    /\ hist.edits > 0 =>
          /\ hist.fired <= 1
          /\ after_queue # {} => hist.fired = 0
          /\ after_queue = {} => hist.fired = 1
          /\ hist.fired = 1 => hist.elapsed >= AutosaveDelayMs
          /\ (hist.fired = 1 /\ hist.wrote) =>
                config_file = [kind |-> "dict", d |-> SettingsToDict(hist.vars)]

\* Two edits in one burst, then the single write with the second edit's values
C9_Witness ==
    /\ hist.edits = 2
    /\ hist.fired = 1
    /\ hist.wrote
    /\ after_queue = {}
    /\ _save_job = 2
    /\ tkvar.border
    /\ config_file = [kind |-> "dict", d |-> SettingsToDict(tkvar)]

\* The warning _load_settings records for a settings file of this kind
LoadWarning(kind) == IF kind = "notdict" THEN WrongFormatMsg ELSE LoadFailedMsg

\* C10: a settings file that cannot be read, is not JSON or is not an object
\* leaves every setting at its default; the warning is recorded while the status
\* label does not exist yet and is shown in the label once the UI has been built.
C10_LoadFailureWarns ==
    (config_file.kind \in BadKinds) =>
        /\ pc = "loaded" =>
              /\ tkvar = DEFAULT_SETTINGS
              /\ lbl_config_status = NoLabel
              /\ _pending_config_status = LoadWarning(config_file.kind)
        /\ pc = "built" =>
              /\ tkvar = DEFAULT_SETTINGS
              /\ lbl_config_status = LoadWarning(config_file.kind)

\* The UI has been built after a load of a file that is not JSON
C10_Witness ==
    /\ pc = "built"
    /\ config_file.kind = "garbage"
    /\ lbl_config_status = LoadFailedMsg
    /\ tkvar = DEFAULT_SETTINGS

-----------------------------------------------------------------------------
(* Observations on the filling of pages                                    *)

RECURSIVE SumSeq(_)
SumSeq(ns) == IF ns = <<>> THEN 0 ELSE Head(ns) + SumSeq(Tail(ns))

\* C11: page filling. Every page but the last holds exactly labels_per_page
\* labels, the last holds between 1 and labels_per_page (no empty page is
\* finalized, nothing stays on an open page), the page sizes sum to count, and
\* the remaining count is 0 when generation ends.
C11_PageFilling ==
    GenRan =>
        LET per == labels_per_page(gen.args.layout)
            sizes == PageSizes(gen.res.c)
        IN /\ Len(sizes) >= 1
           /\ \A p \in 1..(Len(sizes) - 1) : sizes[p] = per
           /\ 1 <= sizes[Len(sizes)] /\ sizes[Len(sizes)] <= per
           /\ SumSeq(sizes) = gen.args.count
           /\ gen.res.c.cur = <<>>
           /\ gen.res.remaining = 0

\* Three pages on the 2 x 2 sheet, the last one with a single label
C11_Witness ==
    /\ GenRan
    /\ gen.res.raised = ""
    /\ PageSizes(gen.res.c) = <<labels_per_page(gen.args.layout),
                                labels_per_page(gen.args.layout), 1>>
    /\ gen.args.count = 2 * labels_per_page(gen.args.layout) + 1
    /\ gen.res.remaining = 0

-----------------------------------------------------------------------------
(* Observations on untagged settings records                               *)

\* A record without calibration_mode that holds calibration values was loaded
LoadedUntagged ==
    /\ LoadedDict
    /\ "calibration_mode" \notin DOMAIN config_file.d
    /\ Present(config_file.d) # {}

\* Every calibration value the record holds is the number 0
AllZero(d) ==
    \A j \in Present(d) : IsNumber(d[j]) /\ FloatAbs(NumberOf(d[j])) = FloatZero(FALSE)

\* Every calibration value the record holds is a number of magnitude below 1e-9
AllNearZero(d) == \A j \in Present(d) : NearZero(d[j])

\* C12: an untagged record whose calibration values present are all numbers of
\* magnitude below 1e-9 (zero, or as small as 1e-10) is treated as delta format:
\* the values are loaded unchanged and no baseline is subtracted. Any other
\* untagged record that holds calibration values is treated as legacy absolute:
\* every calibration number in it is loaded as the float number minus the
\* baseline of its axis, and a value that is not a number is loaded unchanged.
C12_UntaggedZeroIsDelta ==
    LoadedUntagged =>
        IF AllNearZero(config_file.d)
        THEN \A k \in Present(config_file.d) :
                /\ tkvar[k] = Str(config_file.d[k])
                /\ ParseFloat(tkvar[k]).val = NumberOf(config_file.d[k])
        ELSE \A k \in Present(config_file.d) :
                IF IsNumber(config_file.d[k])
                THEN /\ LoadedAsDifference(config_file.d, k)
                     /\ tkvar[k] = FloatToStr(FloatSub(NumberOf(config_file.d[k]),
                                                       BASE_CALIBRATION_MM[k]))
                ELSE tkvar[k] = Str(config_file.d[k])

\* The untagged record with off_x 1e-10 and pitch_dy 0 was loaded and the
\* variables hold these texts, not the differences to the baseline
C12_Witness ==
    /\ LoadedUntagged
    /\ config_file.d = CalTiny
    /\ ~AllZero(config_file.d)
    /\ tkvar.off_x = <<"\t", "", "1", "e", "-", "1", "0", "", "\n">>
    /\ tkvar.pitch_dy = Zero
    /\ tkvar.off_y = ZeroPointZero

\* C12 as stated: an untagged record is loaded unchanged when every calibration
\* value present is zero, and an untagged record with a calibration value that
\* is not zero has the baseline subtracted from every calibration number.
C12_Original ==
    LoadedUntagged =>
        IF AllZero(config_file.d)
        THEN \A k \in Present(config_file.d) : tkvar[k] = Str(config_file.d[k])
        ELSE \A k \in Present(config_file.d) :
                IsNumber(config_file.d[k]) => LoadedAsDifference(config_file.d, k)

-----------------------------------------------------------------------------
(* Observations on the start field across generate actions                 *)

LastOf(seq) == seq[Len(seq)]

\* The run before this one succeeded and the start field still holds its result
FollowsSuccess ==
    /\ gen.via = "app"
    /\ gen.outcome = "ok"
    /\ tkvar.start = IntToStr(gen.res.current)

\* C13: the start field advances only on success. A generate action that
\* succeeds with start s and count n leaves s + n in the start field and emits
\* the numbers s .. s + n - 1, so a success that follows a success with the start
\* field untouched begins right after the last number of the one before; a
\* generate action that fails validation, fails while writing, or whose save
\* dialog is cancelled leaves the start field (and every other field) unchanged.
C13_StartAdvancesOnSuccess ==
    [][GenerateStep =>
          /\ gen'.fields = tkvar
          /\ IF gen'.outcome = "ok"
             THEN /\ gen'.args.start_number = ParseInt(tkvar.start).val
                  /\ tkvar'.start = IntToStr(gen'.args.start_number + gen'.args.count)
                  /\ Emitted(gen'.res.c)[1].number = gen'.args.start_number
                  /\ LastOf(Emitted(gen'.res.c)).number
                        = gen'.args.start_number + gen'.args.count - 1
                  /\ FollowsSuccess =>
                        Emitted(gen'.res.c)[1].number
                            = LastOf(Emitted(gen.res.c)).number + 1
             ELSE /\ gen'.outcome \in {"error", "cancel"}
                  /\ tkvar' = tkvar
                  /\ gen'.res.raised = "OSError" => ~gen'.res.written
      ]_vars

\* Two successes in a row from the defaults: 1..189, then 190..378, and the
\* start field holds 379
C13_Witness ==
    /\ gen.via = "app"
    /\ gen.outcome = "ok"
    /\ gen.fields.start = <<"1", "9", "0">>
    /\ Emitted(gen.res.c)[1].number = 190
    /\ LastOf(Emitted(gen.res.c)).number = 378
    /\ tkvar.start = <<"3", "7", "9">>

-----------------------------------------------------------------------------
(* Observations on the reset of the configuration                          *)

\* This step is an on_reset_config that was confirmed and could delete the file
ResetStep == hist'.resets = hist.resets + 1

\* DEFAULT_SETTINGS as _settings_to_dict writes them
DefaultsTaggedDelta ==
    [k \in SettingKeys \cup {"calibration_mode"} |->
        IF k = "calibration_mode" THEN JStr(TagDelta)
        ELSE IF k = "border" THEN JBool(FALSE)
        ELSE JStr(DEFAULT_SETTINGS[k])]

\* C14: after a confirmed reset whose deletion succeeds every setting equals its
\* value in DEFAULT_SETTINGS, the four calibration fields hold 0.0 and not 0.0
\* minus the baseline, and the settings file the reset writes holds the defaults
\* tagged as delta mode, from whatever state the reset was invoked; when that
\* write fails there is no settings file and the failure is shown.
C14_ResetRestoresDefaults ==
    [][ResetStep =>
          /\ \A k \in SettingKeys : tkvar'[k] = DEFAULT_SETTINGS[k]
          /\ \A k \in CalKeys :
                /\ tkvar'[k] = ZeroPointZero
                /\ ParseFloat(tkvar'[k]) = [ok |-> TRUE, val |-> FloatZero(FALSE)]
          /\ IF hist'.saved_valid
             THEN /\ config_file' = [kind |-> "dict", d |-> DefaultsTaggedDelta]
                  /\ lbl_config_status' = ""
             ELSE /\ config_file'.kind = "absent"
                  /\ lbl_config_status' = SaveFailedMsg
      ]_vars

\* A reset made after the offset was edited to 2,0: the fields and the file
\* hold the defaults again
C14_Witness ==
    /\ hist.resets = 1
    /\ hist.vars.off_x = <<"2", ",", "0">>
    /\ tkvar = DEFAULT_SETTINGS
    /\ tkvar.off_x = ZeroPointZero
    /\ config_file = [kind |-> "dict", d |-> DefaultsTaggedDelta]

-----------------------------------------------------------------------------
(* Observations on repeated loads of a migrated record                     *)

\* The settings file is one this program wrote
FileSavedByApp == hist.saved_valid /\ config_file.kind = "dict"

\* C15: the baseline is subtracted at most once. Every save writes the record
\* tagged as delta mode, so a load after a migration and a save yields the
\* calibration values of the first migration, and a load of the same legacy
\* file that was never saved over yields the values of the first load.
C15_MigratedOnce ==
    /\ FileSavedByApp =>
          /\ "calibration_mode" \in DOMAIN config_file.d
          /\ config_file.d["calibration_mode"] = JStr(TagDelta)
    /\ (pc = "loaded" /\ hist.mig_valid) =>
          \A k \in CalKeys : tkvar[k] = hist.mig[k]

\* The legacy record (2.0, 0, 0, 0) was migrated to 6.5, -7.0, -1.2, -0.42,
\* saved with the tag, and is loaded again as 6.5, -7.0, -1.2, -0.42
C15_Witness ==
    /\ pc = "loaded"
    /\ hist.mig_valid
    /\ FileSavedByApp
    /\ config_file.d["calibration_mode"] = JStr(TagDelta)
    /\ config_file.d.off_x = JStr(<<"6", ".", "5">>)
    /\ hist.mig.off_x = <<"6", ".", "5">>
    /\ tkvar.off_x = <<"6", ".", "5">>
    /\ tkvar.pitch_dy = <<"-", "0", ".", "4", "2">>

====
